---- MODULE Spec2Model ----
(***************************************************************************)
(* Execution-gating pipeline of Intelligent-Desktop:                       *)
(*   UI (MainWindow / WorkerThread)  ->  MCPClient.process_user_intent     *)
(*   ->  MCPClient.send_tool_call (retry)  ->  SessionManager.call_tool    *)
(*   ->  MCP server tools (execute_python, file_operations) with           *)
(*       server-side elicitation.                                          *)
(*                                                                         *)
(* Spec        the client worker, the orchestrator loop, the dispatch      *)
(*             retry loop and the server tools, wired together.            *)
(* SpecServer  the server tools alone, driven by an arbitrary MCP client   *)
(*             (every elicitation result the protocol allows).             *)
(***************************************************************************)
EXTENDS Integers, Sequences, FiniteSets, TLC

\* ------------------------------------------------------------------ bounds
\* requests the user submits in one behaviour
MaxRequests == 2
\* steps of a generated plan
MaxSteps == 2
\* code fragments joined into one code string (SpecServer)
MaxFrags == 2

\* elicitation requests in one behaviour of SpecElicit
MaxElicits == 2
\* clicks on confirm links in one behaviour of SpecElicit
MaxClicks == 2

\* SessionManager instances, MCPClients and operations in one behaviour of
\* SpecSession
MaxManagers == 2
MaxClients == 2
MaxOps == 4

\* config["mcp"]["client"]["retry_attempts"]
RetryAttempts == 3

\* ------------------------------------------------------------ code strings
(* A code string is the set of fragments (lines) it is made of.  Occurs[f] *)
(* lists the classifier keywords that are substrings of lower(f); no       *)
(* keyword spans a line break, so `kw in code.lower()` is: some fragment   *)
(* of the code has kw among its substrings.                                *)
Fragments ==
  { "print(1)", "os.system('ls')", "subprocess.run(c)", "pickle.loads(b)",
    "open(p,'w')", "open(p)", "m='a'", "shutil.rmtree(d)", "p.unlink()",
    "os.remove(p)", "os.listdir(d)", "rm -rf /tmp", "eval(x)",
    "import socket", "import requests", "import ftplib" }

Occurs(f) ==
  CASE f = "print(1)"          -> {}
    [] f = "os.system('ls')"   -> {"os.system"}
    [] f = "subprocess.run(c)" -> {"subprocess.run", "subprocess"}
    [] f = "pickle.loads(b)"   -> {"pickle"}
    [] f = "open(p,'w')"       -> {"open(", "'w'", "'w"}
    [] f = "open(p)"           -> {"open("}
    [] f = "m='a'"             -> {"'a'", "'a"}
    [] f = "shutil.rmtree(d)"  -> {"shutil.rmtree"}
    [] f = "p.unlink()"        -> {".unlink"}
    [] f = "os.remove(p)"      -> {"os.remove", ".remove"}
    [] f = "os.listdir(d)"     -> {"os.listdir"}
    [] f = "rm -rf /tmp"       -> {"rm -rf"}
    [] f = "eval(x)"           -> {"eval("}
    [] f = "import socket"     -> {"socket"}
    [] f = "import requests"   -> {"requests"}
    [] f = "import ftplib"     -> {}
    [] f = "import os"         -> {"import os"}
    [] f = "os.popen(c)"       -> {"os.popen"}
    [] f = "os.kill(p,9)"      -> {"os.kill"}
    [] OTHER                   -> {}

\* kw in code.lower()
Contains(code, kw) == \E f \in code : kw \in Occurs(f)

\* index of the first keyword of the list kws found in code, 0 if none
FirstHit(code, kws) ==
  LET hits == { k \in 1..Len(kws) : Contains(code, kws[k]) }
  IN  IF hits = {} THEN 0
      ELSE CHOOSE k \in hits : \A j \in hits : k <= j

\* a classifier verdict: None, or the message (its category and keyword)
None == [kind |-> "none", detail |-> ""]
Msg(kind, detail) == [kind |-> kind, detail |-> detail]

\* -------------------------------------------- client-side classifier
\* ElicitationManager.check_dangerous_operation(tool_name, tool_args)
ClientPyKeywords  == << "rm -rf", "os.system", "subprocess.run" >>
ClientCmdKeywords == << "rm -rf", "format", "shutdown", "reboot" >>
ClientWriteModes  == { "'w'", "'w", "\"w\"", "\"w", "'a'", "'a", "\"a\"", "\"a" }
ClientDeleteKeywords ==
  { "os.remove", "os.unlink", "os.rmdir", "os.removedirs", "shutil.rmtree" }
ClientDirKeywords == { "os.mkdir", "os.makedirs", "os.listdir", "os.walk" }

ElicitationManager_check_dangerous_operation(tool_name, tool_args) ==
  LET py  == FirstHit(tool_args.code, ClientPyKeywords)
      cmd == FirstHit(tool_args.command, ClientCmdKeywords)
      code == tool_args.code
  IN  IF tool_name = "execute_python" /\ py # 0
        THEN Msg("danger", ClientPyKeywords[py])
      ELSE IF tool_name = "system_command" /\ cmd # 0
        THEN Msg("danger", ClientCmdKeywords[cmd])
      ELSE IF tool_name = "execute_python"
        THEN IF /\ Contains(code, "open(") \/ Contains(code, "with open(")
                /\ \E mode \in ClientWriteModes : Contains(code, mode)
               THEN Msg("write", "")
             ELSE IF \E kw \in ClientDeleteKeywords : Contains(code, kw)
               THEN Msg("delete", "")
             ELSE IF \E kw \in ClientDirKeywords : Contains(code, kw)
               THEN Msg("dir", "")
             ELSE None
      ELSE None

\* -------------------------------------------- server-side classifier
\* SecurityChecker.check_dangerous_operation(code); the paths that
\* _extract_file_paths adds to the message text are not carried here.
ServerWriteModes == { "'w'", "\"w\"", "'a'", "\"a\"", "'x'", "\"x\"" }
ServerDeletePatterns ==
  { "os.remove", "os.unlink", "os.rmdir", "os.removedirs", "shutil.rmtree",
    ".unlink", ".remove", ".rmdir", ".removedirs" }
ServerDirKeywords == << "os.mkdir", "os.makedirs", "os.listdir", "os.walk" >>
ServerDangerousKeywords ==
  << "os.system", "subprocess", "eval(", "exec(", "__import__", "compile(",
     "pickle", "marshal", "socket", "urllib", "requests", "http.client",
     "https.client" >>

SecurityChecker_check_dangerous_operation(code) ==
  LET dir == FirstHit(code, ServerDirKeywords)
      kw  == FirstHit(code, ServerDangerousKeywords)
  IN  IF /\ Contains(code, "open(")
         /\ \E mode \in ServerWriteModes : Contains(code, mode)
        THEN Msg("write", "")
      ELSE IF \E op \in ServerDeletePatterns : Contains(code, op)
        THEN Msg("delete", "")
      ELSE IF dir # 0
        THEN Msg("dir", ServerDirKeywords[dir])
      ELSE IF kw # 0
        THEN Msg("danger", ServerDangerousKeywords[kw])
      ELSE None

\* ------------------------------------------------------------------ state
VARIABLES
  \* WorkerThread (ui/pyqt_app.py)
  user_input_queue,  \* asyncio.Queue of submitted requests (ids, FIFO)
  pc,                \* position of the worker coroutine
  cur,               \* id of the request in process_user_input, 0 if none
  \* MCPClient (mcp_client/client.py)
  interrupted,       \* self.interrupted
  intent,            \* intent["type"] of the current request
  steps,             \* plan["steps"] (or the single direct code request)
  i,                 \* 1-based index of the step of the loop iteration
  attempt,           \* loop variable of send_tool_call
  results,           \* the list results of process_user_intent
  ret,               \* what process_user_intent returned last
  \* MCP server (mcp_server/server.py, tools/file_operations.py)
  call,              \* the tool call the server is handling
  srvPc,             \* "idle" | "elicit": suspended in ctx.elicit
  reply,             \* the tool result on its way back
  \* history (not program state)
  submitted,         \* number of add_user_input calls so far
  started,           \* ids in the order process_user_input took them
  okSteps,           \* steps of the current request whose result was recorded
  trace,             \* events of the current send_tool_call
  approved,          \* approved=true was recorded for the current step
  everCalled,        \* steps of the current request call_tool was invoked for
  declined,          \* an elicitation of the current request ended unapproved
  intK,              \* steps dispatched when interrupt() hit the plan, -1 if not
  staleFlag,         \* the flag was still set when the current request began
  ran,               \* side effect the server started for the current call
  elicitRes          \* elicitation result the server got for the current call

\* the confirmation round trip in detail (ui/pyqt_app.py, ui/pyqt_main_window.py)
VARIABLES
  elicitation_callback, \* SessionManager.elicitation_callback is installed
  cbPc,                 \* position of WorkerThread._elicitation_callback
  elicitation_future,   \* WorkerThread.elicitation_future: state of the future
  signals,              \* elicitation_request signals queued for the UI thread
  mw_callback,          \* MainWindow.elicitation_callback: 0, or the request
                        \* its closure was made for
  elicitation_handled,  \* MainWindow.elicitation_handled
  chat_prompts,         \* requests whose confirm links are in the chat area
  \* history (not program state)
  reqNo,                \* elicitation requests handed to handle_elicitation
  futureFor,            \* request the current future was created for
  clicks,               \* clicks on a confirm link so far
  approvals,            \* requests confirmed by the first click on their prompt
  intPending,           \* requests that were unresolved when interrupt() ran
  cbOutcome,            \* how the callback of the last request ended
  resolutions           \* per request, in order: what resolved it

uiVars == << elicitation_callback, cbPc, elicitation_future, signals,
             mw_callback, elicitation_handled, chat_prompts, reqNo, futureFor,
             clicks, approvals, intPending,
             cbOutcome, resolutions >>

\* the session channel (mcp_client/client.py: SessionManager, the global
\* instance, the MCPClients holding it)
VARIABLES
  mgrs,                   \* the SessionManager instances, by number
  created,                \* number of SessionManager instances constructed
  global_session_manager, \* _global_session_manager: 0 (None) or an instance
  session_manager,        \* per MCPClient: self.session_manager, 0 if None
  \* history (not program state)
  ops,                    \* operations so far
  lastOp                  \* what the last operation did

sessVars == << mgrs, created, global_session_manager, session_manager, ops,
               lastOp >>

\* the code classifier applied to one code string (mcp_server/security.py)
VARIABLES
  cls_code,     \* the argument code
  cls_verdict   \* what check_dangerous_operation returned for it

clsVars == << cls_code, cls_verdict >>

\* SandboxExecutor running one code string (mcp_server/sandbox.py)
VARIABLES
  sb_code,     \* the statements of the code handed to execute_code
  sb_at,       \* 1-based index of the statement exec is about to run
  sb_stdout,   \* number of writes captured by stdout_capture
  sb_stderr,   \* number of writes captured by stderr_capture
  sb_exc,      \* the exception exec is unwinding with, NoExc if none
  sb_import,   \* log: the calls of safe_import, in order
  sb_result    \* what execute_code gave its caller, NoResult while running

sbVars == << sb_code, sb_at, sb_stdout, sb_stderr, sb_exc, sb_import,
             sb_result >>

\* TaskPlanner.plan for one query, and the dispatch of the plan it returns
\* (mcp_client/task_planner.py, mcp_client/client.py)
VARIABLES
  pl_answer,   \* what LLMClient.plan_task does for the query
  pl_gen,      \* what LLMClient() / generate_python_code does for the query
  pl_plan,     \* what TaskPlanner.plan returned, NoPlan before the call
  pl_calls,    \* tools process_user_intent sent for the plan, in order
  pl_report    \* [summary, plan] process_user_intent returned, NoReport before

plVars == << pl_answer, pl_gen, pl_plan, pl_calls, pl_report >>

\* LLMClient.clean_json_response on one backend response (mcp_client/llm.py)
VARIABLES
  js_doc,      \* the JSON document the backend meant to write
  js_kind,     \* how the response differs from it
  js_in,       \* the response text, a sequence of tokens
  js_fixed,    \* validate_and_fix_json(response), NotRun before the call
  js_out,      \* clean_json_response(response), NotRun before the call
  js_again     \* clean_json_response of js_out, NotRun before the call

jsVars == << js_doc, js_kind, js_in, js_fixed, js_out, js_again >>

\* the functions that are specified on their own input
\* one MCPClient.send_tool_call from entry to return (mcp_client/client.py)
VARIABLES
  ds_mgr,      \* the global SessionManager instance
  ds_held,     \* self.session_manager of the client is set
  ds_pc,       \* idle, enter, attempt, returned or raised
  ds_attempt,  \* attempt of the retry loop
  ds_log,      \* history: the connects and session calls made so far
  ds_result    \* what the caller got: a response or the error raised

dsVars == << ds_mgr, ds_held, ds_pc, ds_attempt, ds_log, ds_result >>

\* the path list of the delete message (mcp_server/security.py)
VARIABLES
  dl_code,    \* the delete calls of the code
  dl_first,   \* where the iteration order of a set of paths starts
  dl_listed   \* the paths the message lists, NoMessage before the check

dlVars == << dl_code, dl_first, dl_listed >>

\* _check_system_command on one command (mcp_server/security.py)
VARIABLES
  cm_command,  \* the command string
  cm_safe      \* what _check_system_command returned, Unchecked before

cmVars == << cm_command, cm_safe >>

\* the output of sandboxed code handed to a callback (mcp_server/sandbox.py)
VARIABLES
  so_callback,  \* the output callback: none, sync or async
  so_code,      \* the print statements of the code, by stream
  so_at,        \* 1-based index of the print exec is about to run
  so_out,       \* chunks in the buffer of stdout_capture
  so_err,       \* chunks in the buffer of stderr_capture
  so_sent,      \* chunks the callback took without failing
  so_exc,       \* the exception exec is unwinding with, NoExc if none
  so_result     \* what execute_code gave its caller, NoResult while running

soVars == << so_callback, so_code, so_at, so_out, so_err, so_sent, so_exc,
             so_result >>

\* the two classifiers of SecurityChecker on one code string
VARIABLES
  py_code,     \* the argument code
  py_safe,     \* what _check_python_code returned: "true", "false", Unchecked
  py_message   \* what check_dangerous_operation returned, Unclassified before

pyVars == << py_code, py_safe, py_message >>

\* sandbox executions running at the same time in the executor's threads
\* (mcp_server/sandbox.py)
VARIABLES
  sys_stdout,   \* sys.stdout: Original, or the capture of an execution
  sys_stderr,   \* sys.stderr: the same
  cx_pc,        \* per execution: the statement it is about to run
  cx_old,       \* per execution: old_stdout and old_stderr
  cx_buffer,    \* per execution: the writers of the chunks in stdout_capture
  cx_written,   \* per execution: number of prints its code has made
  cx_output     \* per execution: result["output"], NotRead before

cxVars == << sys_stdout, sys_stderr, cx_pc, cx_old, cx_buffer, cx_written,
             cx_output >>

\* send_tool_call under a configured retry_attempts (mcp_client/client.py)
VARIABLES
  rc_retry,     \* config["mcp"]["client"]["retry_attempts"]
  rc_mgr,       \* the session manager
  rc_held,      \* self.session_manager is set
  rc_pc,        \* "enter", "loop", "returned", "raised"
  rc_attempt,   \* attempt
  rc_log,       \* per session_manager.call_tool made: "ok" or its exception
  rc_result     \* what send_tool_call returned or raised

rcVars == << rc_retry, rc_mgr, rc_held, rc_pc, rc_attempt, rc_log,
             rc_result >>

\* registering the confirmation callback (mcp_client/client.py)
VARIABLES
  rg_callback,    \* MCPClient.elicitation_callback: 0 for None, or a callback
  rg_held,        \* MCPClient.session_manager is set
  rg_exists,      \* _global_session_manager is set
  rg_mgr,         \* the global manager
  rg_mgr_callback,\* its elicitation_callback: 0 for None, or a callback
  rg_pc,          \* "idle", or "attempt" inside send_tool_call
  rg_attempt,     \* attempt of the send_tool_call under way
  rg_steps,       \* operations begun
  rg_registered,  \* the callback last given to set_elicitation_callback, or 0
  rg_last         \* the last elicitation: callback used, callback registered

rgVars == << rg_callback, rg_held, rg_exists, rg_mgr, rg_mgr_callback, rg_pc,
             rg_attempt, rg_steps, rg_registered, rg_last >>

\* variables of the further parts that are specified on their own
extVars == << dlVars, cmVars, soVars, pyVars, cxVars, rcVars, rgVars >>

pureVars == << clsVars, sbVars, plVars, jsVars, dsVars, extVars >>

\* variables of the parts that are specified on their own
auxVars == << uiVars, sessVars, pureVars >>

clientVars == << user_input_queue, pc, cur, interrupted, intent, steps, i,
                 attempt, results, ret, submitted, started, okSteps, trace,
                 approved, everCalled, declined, intK, staleFlag >>
serverVars == << call, srvPc, reply, ran, elicitRes >>
vars == << clientVars, serverVars, auxVars >>

\* ------------------------------------------------------------- tool calls
NoArgs == [code |-> {}, command |-> {}, operation |-> ""]
PyArgs(code) == [code |-> code, command |-> {}, operation |-> ""]
CmdArgs(command) == [code |-> {}, command |-> command, operation |-> ""]
FileArgs(operation) == [code |-> {}, command |-> {}, operation |-> operation]

Step(tool, args) == [tool |-> tool, args |-> args]
\* ctx: whether FastMCP hands the tool a Context (file_operations declares
\* ctx: Optional[Context] = None; whether it is injected depends on the build)
Call(tool, args, ctx) == [tool |-> tool, args |-> args, ctx |-> ctx]
NoCall == Call("", NoArgs, FALSE)

\* tool results (the JSON object a tool returns, or the text of a failure)
Payload(kind, success, result, error) ==
  [kind |-> kind, success |-> success, result |-> result, error |-> error]
NoReply == Payload("none", FALSE, "", "")
\* {"success": False, "error": "用户取消执行"}
UserCancelled == Payload("dict", FALSE, "", "user_cancelled")
\* {"output": ..., "error": ...} of SandboxExecutor.execute_code
SandboxResult(o) ==
  IF o = "ok" THEN Payload("dict", FALSE, "", "")
  ELSE Payload("dict", FALSE, "", "sandbox_error")
\* the error result FastMCP builds when the tool raises or is not registered
ToolErrorText(why) == Payload("text", FALSE, why, "")

\* outcomes of exec(code) in the sandbox / of the file system operation
RunOutcomes == {"ok", "raise"}

\* elicitation results of the MCP protocol; "raise": ctx.elicit itself failed
ElicitResult(action, confirmed) == [action |-> action, confirmed |-> confirmed]
NoElicit == ElicitResult("none", FALSE)
ElicitResults ==
  { ElicitResult("accept", TRUE), ElicitResult("accept", FALSE),
    ElicitResult("decline", FALSE), ElicitResult("cancel", FALSE),
    ElicitResult("raise", FALSE) }

\* result.action != "accept" or not getattr(result.data, "confirmed", False)
Refused(r) == r.action # "accept" \/ ~r.confirmed

\* ------------------------------------------------------------ server tools
\* server.py execute_python, after the elicitation: run in the sandbox
RunSandbox ==
  \E o \in RunOutcomes :
    /\ ran' = "sandbox"
    /\ reply' = SandboxResult(o)
    /\ srvPc' = "idle"

\* file_operations "delete" after the elicitation: rmtree / remove
RunDelete ==
  \E o \in RunOutcomes :
    /\ ran' = "delete"
    /\ reply' = IF o = "ok" THEN Payload("dict", TRUE, "deleted", "")
                ELSE Payload("dict", FALSE, "", "os_error")
    /\ srvPc' = "idle"

\* server.py:93-115  execute_python up to ctx.elicit or to the sandbox
execute_python_begin ==
  IF SecurityChecker_check_dangerous_operation(call.args.code) # None
    THEN srvPc' = "elicit" /\ UNCHANGED << reply, ran >>
    ELSE RunSandbox

\* server.py:102-115  execute_python resumed with the elicitation result r
execute_python_resume(r) ==
  IF r.action = "raise"
    THEN reply' = ToolErrorText("tool_raised") /\ srvPc' = "idle" /\ UNCHANGED ran
  ELSE IF Refused(r)
    THEN reply' = UserCancelled /\ srvPc' = "idle" /\ UNCHANGED ran
  ELSE RunSandbox

\* file_operations.py:99-184 up to ctx.elicit or to the result
file_operations_begin ==
  IF call.args.operation = "create"
    THEN \E o \in RunOutcomes :
           /\ ran' = "create"
           /\ reply' = IF o = "ok" THEN Payload("dict", TRUE, "created", "")
                       ELSE Payload("dict", FALSE, "", "os_error")
           /\ srvPc' = "idle"
  ELSE IF call.args.operation = "delete"
    THEN IF call.ctx
           THEN srvPc' = "elicit" /\ UNCHANGED << reply, ran >>
           ELSE RunDelete
  ELSE /\ reply' = Payload("dict", FALSE, "", "unsupported_operation")
       /\ srvPc' = "idle"
       /\ UNCHANGED ran

\* file_operations.py:140-147, 183-184  delete resumed with the result r
file_operations_resume(r) ==
  IF r.action = "raise"
    THEN reply' = Payload("dict", FALSE, "", "elicit_error") /\ srvPc' = "idle"
         /\ UNCHANGED ran
  ELSE IF Refused(r)
    THEN reply' = UserCancelled /\ srvPc' = "idle" /\ UNCHANGED ran
  ELSE RunDelete

\* the server takes the call and runs the tool up to its first suspension
SrvReceive ==
  /\ call # NoCall
  /\ srvPc = "idle"
  /\ reply = NoReply
  /\ IF call.tool = "execute_python" THEN execute_python_begin
     ELSE IF call.tool = "file_operations" THEN file_operations_begin
     ELSE /\ reply' = ToolErrorText("unknown_tool")
          /\ srvPc' = "idle"
          /\ UNCHANGED ran
  /\ UNCHANGED << call, elicitRes >>

\* ctx.elicit returns r to the suspended tool
SrvResume(r) ==
  /\ srvPc = "elicit"
  /\ elicitRes' = r
  /\ IF call.tool = "execute_python" THEN execute_python_resume(r)
     ELSE file_operations_resume(r)
  /\ UNCHANGED call

\* ---------------------------------------------- the server with any client
Codes == { c \in SUBSET Fragments : Cardinality(c) <= MaxFrags }
AllCalls ==
  { Call("execute_python", PyArgs(c), TRUE) : c \in Codes }
  \cup { Call("file_operations", FileArgs(op), ctx) :
           op \in {"create", "delete", "chmod"}, ctx \in BOOLEAN }
  \cup { Call("system_command", CmdArgs({"rm -rf /tmp"}), FALSE) }

EnvCall ==
  /\ call = NoCall
  /\ \E c \in AllCalls : call' = c
  /\ UNCHANGED << srvPc, reply, ran, elicitRes, clientVars >>
  /\ UNCHANGED auxVars

EnvElicit ==
  /\ \E r \in ElicitResults : SrvResume(r)
  /\ UNCHANGED clientVars
  /\ UNCHANGED auxVars

EnvReceive ==
  /\ SrvReceive
  /\ UNCHANGED clientVars
  /\ UNCHANGED auxVars

EnvTake ==
  /\ reply # NoReply
  /\ call' = NoCall
  /\ reply' = NoReply
  /\ ran' = "none"
  /\ elicitRes' = NoElicit
  /\ UNCHANGED << srvPc, clientVars >>
  /\ UNCHANGED auxVars

\* ------------------------------------------------------- client: results
\* what send_tool_call returns: {"type": "tool_response", "result": ...}
ToolResponse(payload) == [type |-> "tool_response", result |-> payload]

\* MCPClient._parse_mcp_result(result, prefix=...)["summary"]
\* a JSON object: success text, or the error text; a plain text: the text
parse_mcp_result(result, prefix) ==
  LET p == result.result
  IN  IF p.kind = "dict"
        THEN IF p.success
               THEN [prefix |-> prefix, error |-> FALSE, text |-> p.result]
               ELSE [prefix |-> prefix, error |-> TRUE, text |-> p.error]
        ELSE [prefix |-> prefix, error |-> FALSE, text |-> p.result]

\* what process_user_intent returns: {"summary": ..., "plan": ...}; summary is
\* the list of the per-step summaries joined into the text (none for the fixed
\* texts), note the fixed text or the error text
Ret(kind, summary, note, plan) ==
  [kind |-> kind, summary |-> summary, note |-> note, plan |-> plan]
NoRet == Ret("none", << >>, "", << >>)

\* client.py:568-584  summaries of all results, in order
FinalReport(rs, plan) ==
  Ret("completed", [j \in 1..Len(rs) |-> parse_mcp_result(rs[j], j)], "", plan)
\* client.py:552  {"summary": "任务已被用户中断", "plan": plan}
InterruptedReport(rs, plan) == Ret("interrupted", << >>, "interrupted", plan)
\* (variant: the exception is not caught and leaves process_user_intent)
FailureReport_Reraise(e) == Ret("raised", << >>, e, << >>)
\* client.py:606-617  {"summary": f"处理失败: {e}", "plan": {}}
FailureReport(e) == Ret("failed", << >>, e, << >>)

\* ------------------------------------------------------- client: requests
\* steps the planner (an LLM) may put in a plan
StepKinds ==
  { Step("execute_python", PyArgs({"print(1)"})),
    Step("execute_python", PyArgs({"os.system('ls')"})),
    Step("file_operations", FileArgs("delete")),
    Step("system_command", CmdArgs({"rm -rf /tmp"})) }
\* TaskPlanner.plan returns at least one step (an invalid plan is replaced)
Plans == UNION { [1..n -> StepKinds] : n \in 1..MaxSteps }
\* the code of a direct code request
DirectCodes == { {"print(1)"}, {"shutil.rmtree(d)"} }

Event(ev, step, att) == [ev |-> ev, step |-> step, attempt |-> att]

\* the exception of a failed attempt, told apart by the attempt it is from
Exc(att) == CASE att = 0 -> "exception_1" [] att = 1 -> "exception_2"
              [] att = 2 -> "exception_3" [] OTHER -> "exception_n"

\* ------------------------------------------------------------ WorkerThread
\* pyqt_app.py:79-83  run(): the thread creates its event loop
WorkerRun ==
  /\ pc = "boot"
  /\ pc' = "connecting"
  /\ UNCHANGED << user_input_queue, cur, interrupted, intent, steps, i, attempt,
                  results, ret, submitted, started, okSteps, trace, approved, everCalled, declined, intK, staleFlag,
                  serverVars >>
  /\ UNCHANGED auxVars

\* pyqt_app.py:89-105  _run(): connect, then enter the input loop
WorkerConnected ==
  /\ pc = "connecting"
  /\ pc' = "idle"
  /\ UNCHANGED << user_input_queue, cur, interrupted, intent, steps, i, attempt,
                  results, ret, submitted, started, okSteps, trace, approved, everCalled, declined, intK, staleFlag,
                  serverVars >>
  /\ UNCHANGED auxVars

\* pyqt_app.py:100-102, 86-87  connect failed: _run returns, the loop is closed
WorkerConnectFailed ==
  /\ pc = "connecting"
  /\ pc' = "closed"
  /\ UNCHANGED << user_input_queue, cur, interrupted, intent, steps, i, attempt,
                  results, ret, submitted, started, okSteps, trace, approved, everCalled, declined, intK, staleFlag,
                  serverVars >>
  /\ UNCHANGED auxVars

\* pyqt_app.py:223  hasattr(self, 'loop') and not self.loop.is_closed()
LoopAlive == pc \notin {"boot", "closed"}

\* pyqt_app.py:217-224  add_user_input: put on the queue from the UI thread
add_user_input ==
  /\ submitted < MaxRequests
  /\ submitted' = submitted + 1
  /\ user_input_queue' = IF LoopAlive
                           THEN Append(user_input_queue, submitted + 1)
                           ELSE user_input_queue
  /\ UNCHANGED << pc, cur, interrupted, intent, steps, i, attempt, results, ret,
                  started, okSteps, trace, approved, everCalled, declined, intK, staleFlag, serverVars >>
  /\ UNCHANGED auxVars

\* (variant: the newest queued input is taken)
NextInput_Newest == user_input_queue[Len(user_input_queue)]

\* pyqt_app.py:111-113  user_input_queue.get(): the oldest queued input
NextInput == Head(user_input_queue)
RestInputs == Tail(user_input_queue)

\* pyqt_app.py:108-115, 135-144 and client.py:465-471: the worker takes the
\* next input and enters process_user_intent, which clears the flag
\* the flag is left as the last interrupt() set it
ResetFlag_Keep == interrupted

\* client.py:467  self.interrupted = False, the first statement of the try
ResetFlag == FALSE

GetInput ==
  /\ pc = "idle"
  /\ user_input_queue # << >>
  /\ cur' = NextInput
  /\ user_input_queue' = RestInputs
  /\ started' = Append(started, NextInput)
  /\ interrupted' = ResetFlag
  /\ staleFlag' = interrupted
  /\ pc' = "precheck"
  /\ UNCHANGED << intent, steps, i, attempt, results, ret, submitted, okSteps,
                  trace, approved, everCalled, declined, intK, serverVars >>
  /\ UNCHANGED auxVars

\* client.py:474-477  the check right after the reset, then intent parsing
Precheck ==
  /\ pc = "precheck"
  /\ IF interrupted
       THEN /\ ret' = Ret("interrupted", << >>, "interrupted", << >>)
            /\ pc' = "returned"
       ELSE /\ pc' = "planning"
            /\ UNCHANGED ret
  /\ UNCHANGED << user_input_queue, cur, interrupted, intent, steps, i, attempt,
                  results, submitted, started, okSteps, trace, approved, everCalled, declined, intK, staleFlag,
                  serverVars >>
  /\ UNCHANGED auxVars

\* client.py:477-508  intent "tool_call": the code goes to send_tool_call
ResolveToolCall ==
  /\ pc = "planning"
  /\ \E code \in DirectCodes :
       steps' = << Step("execute_python", PyArgs(code)) >>
  /\ intent' = "tool_call"
  /\ i' = 1
  /\ attempt' = 0
  /\ pc' = "call"
  /\ UNCHANGED << user_input_queue, cur, interrupted, results, ret, submitted,
                  started, okSteps, trace, approved, everCalled, declined, intK, staleFlag, serverVars >>
  /\ UNCHANGED auxVars

\* client.py:517-543  intent "task": the planner's steps, the loop starts
ResolveTask ==
  /\ pc = "planning"
  /\ \E plan \in Plans : steps' = plan
  /\ intent' = "task"
  /\ i' = 1
  /\ pc' = "top"
  /\ UNCHANGED << user_input_queue, cur, interrupted, attempt, results, ret,
                  submitted, started, okSteps, trace, approved, everCalled, declined, intK, staleFlag, serverVars >>
  /\ UNCHANGED auxVars

\* (variant: the loop never looks at the flag)
SeesInterrupt_Never == FALSE

\* client.py:547  the loop's test of the flag
SeesInterrupt == interrupted

\* client.py:545-562, 568-584  top of a loop iteration (or the loop's end)
StepTop ==
  /\ pc = "top"
  /\ IF i > Len(steps)
       THEN /\ ret' = FinalReport(results, steps)
            /\ pc' = "returned"
            /\ UNCHANGED attempt
     ELSE IF SeesInterrupt
       THEN /\ ret' = InterruptedReport(results, steps)
            /\ pc' = "returned"
            /\ UNCHANGED attempt
     ELSE /\ attempt' = 0
          /\ pc' = "call"
          /\ UNCHANGED ret
  /\ trace' = << >>
  /\ approved' = FALSE
  /\ UNCHANGED << user_input_queue, cur, interrupted, intent, steps, i, results,
                  submitted, started, okSteps, everCalled, declined, intK, staleFlag,
                  serverVars >>
  /\ UNCHANGED auxVars

\* FastMCP hands execute_python its Context (ctx: Context); for
\* file_operations (ctx: Optional[Context] = None) it depends on the build
CtxChoices(tool) ==
  IF tool = "execute_python" THEN {TRUE}
  ELSE IF tool = "file_operations" THEN BOOLEAN
  ELSE {FALSE}

\* client.py:244  for attempt in range(retry_attempts)
MoreAttempts(att) == att < RetryAttempts

\* client.py:299-302  the loop ran out: {"type": "error", "error": ...}
ErrorResult == [type |-> "error", result |-> Payload("text", FALSE, "", "")]

\* (variant: the loop does not advance)
NextIndex_Same(k) == k

\* client.py:545  enumerate(steps): the index of the next iteration
NextIndex(k) == k + 1

\* client.py:563 / 516  what process_user_intent does with a result
Record(result) ==
  IF intent = "tool_call"
    THEN /\ ret' = Ret("single", << parse_mcp_result(result, 0) >>, "", << >>)
         /\ pc' = "returned"
         /\ UNCHANGED << results, i, okSteps >>
    ELSE /\ results' = Append(results, result)
         /\ okSteps' = Append(okSteps, i)
         /\ i' = NextIndex(i)
         /\ pc' = "top"
         /\ UNCHANGED ret

\* client.py:244-247 and 138-151  one attempt: SessionManager.call_tool sends
\* the call (no classifier is consulted on the way); client.py:299-302 when
\* the attempts are used up without a raise
CallTool ==
  /\ pc = "call"
  /\ IF MoreAttempts(attempt)
       THEN /\ trace' = Append(trace, Event("call", i, attempt))
            /\ everCalled' = everCalled \cup {i}
            /\ \E ctx \in CtxChoices(steps[i].tool) :
                 call' = Call(steps[i].tool, steps[i].args, ctx)
            /\ pc' = "inflight"
            /\ UNCHANGED << results, i, okSteps, ret >>
       ELSE /\ Record(ErrorResult)
            /\ UNCHANGED << trace, everCalled, call >>
  /\ UNCHANGED << user_input_queue, cur, interrupted, intent, steps, attempt,
                  submitted, started, approved, declined, intK, staleFlag,
                  srvPc, reply, ran, elicitRes >>
  /\ UNCHANGED auxVars

\* (variant: the first failure is raised at once)
LastAttempt_First(att) == att = 0

\* client.py:289  is this the last attempt
LastAttempt(att) == att = RetryAttempts - 1

\* client.py:287-292, 606-617  the attempt raised (connect failed, the request
\* or its response was lost): raise on the last attempt, else go to sleep
CallRaises ==
  /\ pc = "inflight"
  /\ srvPc = "idle"
  /\ trace' = Append(trace, Event("fail", i, attempt))
  /\ IF LastAttempt(attempt)
       THEN /\ ret' = FailureReport(Exc(attempt))
            /\ pc' = "returned"
       ELSE /\ pc' = "sleep"
            /\ UNCHANGED ret
  /\ call' = NoCall
  /\ reply' = NoReply
  /\ ran' = "none"
  /\ elicitRes' = NoElicit
  /\ UNCHANGED << user_input_queue, cur, interrupted, intent, steps, i, attempt,
                  results, submitted, started, okSteps, approved, everCalled, declined, intK, staleFlag, srvPc >>
  /\ UNCHANGED auxVars

\* client.py:291-292  asyncio.sleep(1), then the next attempt
Sleep ==
  /\ pc = "sleep"
  /\ trace' = Append(trace, Event("sleep", i, attempt))
  /\ attempt' = attempt + 1
  /\ pc' = "call"
  /\ UNCHANGED << user_input_queue, cur, interrupted, intent, steps, i, results,
                  ret, submitted, started, okSteps, approved, everCalled, declined, intK, staleFlag, serverVars >>
  /\ UNCHANGED auxVars

\* client.py:247-285 then 563 (task) or 516 (direct code): the tool result
\* arrives, is wrapped as a tool_response and recorded
ReceiveReply ==
  /\ pc = "inflight"
  /\ reply # NoReply
  /\ trace' = Append(trace, Event("ok", i, attempt))
  /\ Record(ToolResponse(reply))
  /\ call' = NoCall
  /\ reply' = NoReply
  /\ ran' = "none"
  /\ elicitRes' = NoElicit
  /\ UNCHANGED << user_input_queue, cur, interrupted, intent, steps, attempt,
                  submitted, started, approved, everCalled, declined, intK, staleFlag, srvPc >>
  /\ UNCHANGED auxVars

\* pyqt_app.py:146-167 and 108  process_user_input finishes, back to the loop
Return ==
  /\ pc = "returned"
  /\ pc' = "idle"
  /\ cur' = 0
  /\ intent' = ""
  /\ steps' = << >>
  /\ i' = 0
  /\ attempt' = 0
  /\ results' = << >>
  /\ ret' = NoRet
  /\ trace' = << >>
  /\ okSteps' = << >>
  /\ approved' = FALSE
  /\ everCalled' = {}
  /\ declined' = FALSE
  /\ intK' = -1
  /\ staleFlag' = FALSE
  /\ UNCHANGED << user_input_queue, interrupted, submitted, started, serverVars >>
  /\ UNCHANGED auxVars

\* ------------------------------------------------------------- elicitation
\* client.py:98-136  SessionManager.handle_elicitation: cb is whether a
\* callback is installed, answer what it does ("true", "false", "raise")
SessionManager_handle_elicitation(cb, answer) ==
  IF cb /\ answer = "true"
    THEN ElicitResult("accept", TRUE)
    ELSE ElicitResult("decline", FALSE)

\* the server's call runs in the worker: the future is pending
ElicitPending == pc = "inflight" /\ srvPc = "elicit"

\* pyqt_app.py:226-229, 206-215  the user answers the prompt
ElicitRespond ==
  /\ ElicitPending
  /\ \E b \in BOOLEAN :
       /\ approved' = (approved \/ b)
       /\ declined' = (declined \/ ~b)
       /\ SrvResume(SessionManager_handle_elicitation(
                       TRUE, IF b THEN "true" ELSE "false"))
  /\ UNCHANGED << user_input_queue, pc, cur, interrupted, intent, steps, i,
                  attempt, results, ret, submitted, started, okSteps, trace,
                  everCalled, intK, staleFlag >>
  /\ UNCHANGED auxVars

\* pyqt_app.py:206-210  no answer within 30 s: the callback returns False
ElicitTimeout ==
  /\ ElicitPending
  /\ SrvResume(SessionManager_handle_elicitation(TRUE, "false"))
  /\ declined' = TRUE
  /\ UNCHANGED << user_input_queue, pc, cur, interrupted, intent, steps, i,
                  attempt, results, ret, submitted, started, okSteps, trace,
                  approved, everCalled, intK, staleFlag >>
  /\ UNCHANGED auxVars

\* steps of the plan dispatched so far
Dispatched ==
  IF pc \in {"call", "inflight", "sleep"} THEN i
  ELSE IF pc = "top" THEN i - 1
  ELSE 0

\* pyqt_app.py:231-240 and client.py:231-236  interrupt(): set the flag and
\* cancel a pending elicitation future.  The cancelled wait raises
\* CancelledError in the callback: handle_elicitation's except Exception
\* turns it into decline where CancelledError is an Exception, and lets it
\* escape (the elicitation fails) where it is a BaseException.
interrupt ==
  /\ interrupted' = TRUE
  /\ intK' = IF intK = -1 /\ cur # 0 /\ pc # "returned"
               THEN Dispatched ELSE intK
  /\ IF ElicitPending
       THEN /\ \E r \in { ElicitResult("decline", FALSE),
                          ElicitResult("raise", FALSE) } : SrvResume(r)
            /\ declined' = TRUE
       ELSE UNCHANGED << serverVars, declined >>
  /\ UNCHANGED << user_input_queue, pc, cur, intent, steps, i, attempt, results,
                  ret, submitted, started, okSteps, trace, approved, everCalled,
                  staleFlag >>
  /\ UNCHANGED auxVars

ServerStep ==
  SrvReceive /\ pc = "inflight" /\ UNCHANGED << clientVars, auxVars >>

\* ------------------------------------------------------ session channel
\* SessionManager.__init__ (client.py:28-37) with the history of the instance:
\* open: the contexts entered and not exited, handshakes: completed
\* session.initialize() calls, dead: the session's connection is lost
NewManager ==
  [connected |-> FALSE, stream_ctx |-> FALSE, session |-> FALSE, tools |-> FALSE,
   open |-> {}, handshakes |-> 0, dead |-> FALSE]

\* where connect can fail (client.py:49-61), or not at all
ConnectOutcomes ==
  {"ok", "fail_transport", "fail_session", "fail_initialize", "fail_list_tools"}

\* outcomes of session.call_tool (client.py:151): a result, or the connection
\* is found lost
CallOutcomes == {"ok", "lost"}

\* (variant: connect does not look at the connected flag)
AlreadyConnected_Never(m) == FALSE

\* client.py:41  if self.connected
AlreadyConnected(m) == m.connected

\* client.py:71-96  SessionManager.close
SessionManager_close(m) ==
  IF ~m.connected THEN m
  ELSE [m EXCEPT !.session = FALSE, !.stream_ctx = FALSE, !.open = {},
                 !.connected = FALSE, !.dead = FALSE]

\* client.py:47-64  the body of connect up to where outcome o makes it fail
ConnectBody(m, o) ==
  LET a == [m EXCEPT !.stream_ctx = TRUE]
      b == [a EXCEPT !.open = @ \cup {"stream"}, !.session = TRUE, !.dead = FALSE]
      c == [b EXCEPT !.open = @ \cup {"session"}]
      d == [c EXCEPT !.handshakes = @ + 1]
      e == [d EXCEPT !.tools = TRUE, !.connected = TRUE]
  IN  CASE o = "fail_transport"  -> a
        [] o = "fail_session"    -> b
        [] o = "fail_initialize" -> c
        [] o = "fail_list_tools" -> d
        [] OTHER                 -> e

\* client.py:39-69  SessionManager.connect: the instance afterwards, whether
\* it raised, whether it opened a transport and whether it shook hands
SessionManager_connect(m, o) ==
  IF AlreadyConnected(m)
    THEN [m |-> m, raised |-> FALSE, opened |-> FALSE, handshake |-> FALSE]
    ELSE [m |-> IF o = "ok" THEN ConnectBody(m, o)
                ELSE SessionManager_close(ConnectBody(m, o)),
          raised |-> o # "ok",
          opened |-> TRUE,
          handshake |-> o \in {"ok", "fail_list_tools"}]

\* (variant: call_tool never connects)
NeedsConnect_Never(m) == FALSE

\* client.py:140  if not self.connected
NeedsConnect(m) == ~m.connected

\* client.py:138-156  SessionManager.call_tool: o the outcome of the implicit
\* connect, co the outcome of session.call_tool
SessionManager_call_tool(m, o, co) ==
  LET c  == IF NeedsConnect(m) THEN SessionManager_connect(m, o)
            ELSE [m |-> m, raised |-> FALSE, opened |-> FALSE, handshake |-> FALSE]
      lost == c.m.dead \/ co = "lost"
  IN  IF c.raised
        THEN [m |-> c.m, raised |-> TRUE, error |-> "connect", invoked |-> FALSE,
              connectTried |-> TRUE, handshake |-> c.handshake]
      ELSE IF ~c.m.session
        THEN [m |-> c.m, raised |-> TRUE, error |-> "no_session",
              invoked |-> FALSE, connectTried |-> NeedsConnect(m),
              handshake |-> c.handshake]
      ELSE [m |-> [c.m EXCEPT !.dead = lost],
            raised |-> lost, error |-> IF lost THEN "lost" ELSE "",
            invoked |-> TRUE, connectTried |-> NeedsConnect(m),
            handshake |-> c.handshake]

Op(op, mgr, before, raised, error, opened, handshake, invoked, connectTried) ==
  [op |-> op, mgr |-> mgr, before |-> before, raised |-> raised,
   error |-> error, opened |-> opened, handshake |-> handshake,
   invoked |-> invoked, connectTried |-> connectTried]
NoOp == Op("none", 0, NewManager, FALSE, "", FALSE, FALSE, FALSE, FALSE)

\* the outcomes of a connect that is made (one, unused, if none is made)
OutcomesIf(made) == IF made THEN ConnectOutcomes ELSE {"ok"}

\* client.py:158-169  get_session_manager: the instance it returns
CanGet == global_session_manager # 0 \/ created < MaxManagers
get_session_manager ==
  IF global_session_manager = 0 THEN created + 1 ELSE global_session_manager
CreatedAfterGet ==
  IF global_session_manager = 0 THEN created + 1 ELSE created

\* client.py:171-175  initialize_global_session
initialize_global_session ==
  /\ ops < MaxOps /\ CanGet
  /\ \E o \in OutcomesIf(~AlreadyConnected(mgrs[get_session_manager])) :
       LET g == get_session_manager
           r == SessionManager_connect(mgrs[g], o)
       IN  /\ mgrs' = [mgrs EXCEPT ![g] = r.m]
           /\ global_session_manager' = g
           /\ created' = CreatedAfterGet
           /\ lastOp' = Op("connect", g, mgrs[g], r.raised, "", r.opened,
                           r.handshake, FALSE, FALSE)
  /\ ops' = ops + 1
  /\ UNCHANGED << session_manager, clientVars, serverVars, uiVars, pureVars >>

\* client.py:177-182  close_global_session
close_global_session ==
  /\ ops < MaxOps
  /\ IF global_session_manager # 0
       THEN mgrs' = [mgrs EXCEPT ![global_session_manager] =
                                   SessionManager_close(@)]
       ELSE UNCHANGED mgrs
  /\ global_session_manager' = 0
  /\ lastOp' = Op("close", global_session_manager, NewManager, FALSE, "", FALSE,
                  FALSE, FALSE, FALSE)
  /\ ops' = ops + 1
  /\ UNCHANGED << created, session_manager, clientVars, serverVars, uiVars, pureVars >>

\* client.py:198-215  MCPClient.connect of client c
MCPClient_connect(c) ==
  /\ ops < MaxOps /\ CanGet
  /\ \E o \in OutcomesIf(~AlreadyConnected(mgrs[get_session_manager])) :
       LET g == get_session_manager
           r == SessionManager_connect(mgrs[g], o)
       IN  /\ mgrs' = [mgrs EXCEPT ![g] = r.m]
           /\ global_session_manager' = g
           /\ created' = CreatedAfterGet
           /\ session_manager' = [session_manager EXCEPT ![c] = g]
           /\ lastOp' = Op("connect", g, mgrs[g], r.raised, "", r.opened,
                           r.handshake, FALSE, FALSE)
  /\ ops' = ops + 1
  /\ UNCHANGED << clientVars, serverVars, uiVars, pureVars >>

\* client.py:217-221  MCPClient.disconnect of client c
MCPClient_disconnect(c) ==
  /\ ops < MaxOps
  /\ IF global_session_manager # 0
       THEN mgrs' = [mgrs EXCEPT ![global_session_manager] =
                                   SessionManager_close(@)]
       ELSE UNCHANGED mgrs
  /\ global_session_manager' = 0
  /\ session_manager' = [session_manager EXCEPT ![c] = 0]
  /\ lastOp' = Op("close", global_session_manager, NewManager, FALSE, "", FALSE,
                  FALSE, FALSE, FALSE)
  /\ ops' = ops + 1
  /\ UNCHANGED << created, clientVars, serverVars, uiVars, pureVars >>

\* client.py:240-241  the session manager of client c when call_tool is
\* entered: the one it holds, or the global one after self.connect()
ManagerAtCall(c, o1) ==
  IF session_manager[c] # 0 THEN mgrs[session_manager[c]]
  ELSE SessionManager_connect(mgrs[get_session_manager], o1).m

\* client.py:240-247  MCPClient.send_tool_call of client c up to the end of
\* its first attempt: self.connect() if it holds no session manager (a failure
\* there is swallowed, client.py:213-215), then session_manager.call_tool
MCPClient_call_tool(c) ==
  /\ ops < MaxOps
  /\ session_manager[c] # 0 \/ CanGet
  /\ \E o1 \in OutcomesIf(session_manager[c] = 0) :
     \E o \in OutcomesIf(NeedsConnect(ManagerAtCall(c, o1))),
        co \in CallOutcomes :
       LET held == session_manager[c] # 0
           g  == IF held THEN session_manager[c] ELSE get_session_manager
           m0 == ManagerAtCall(c, o1)
           r  == SessionManager_call_tool(m0, o, co)
       IN  /\ mgrs' = [mgrs EXCEPT ![g] = r.m]
           /\ session_manager' = [session_manager EXCEPT ![c] = g]
           /\ global_session_manager' =
                IF held THEN global_session_manager ELSE g
           /\ created' = IF held THEN created ELSE CreatedAfterGet
           /\ lastOp' = Op("call_tool", g, m0, r.raised, r.error,
                           r.connectTried, r.handshake, r.invoked,
                           r.connectTried)
  /\ ops' = ops + 1
  /\ UNCHANGED << clientVars, serverVars, uiVars, pureVars >>

InitSession ==
  /\ mgrs = [m \in 1..MaxManagers |-> NewManager]
  /\ created = 0
  /\ global_session_manager = 0
  /\ session_manager = [c \in 1..MaxClients |-> 0]
  /\ ops = 0
  /\ lastOp = NoOp

NextSession ==
  \/ initialize_global_session
  \/ close_global_session
  \/ \E c \in 1..MaxClients : MCPClient_connect(c)
  \/ \E c \in 1..MaxClients : MCPClient_disconnect(c)
  \/ \E c \in 1..MaxClients : MCPClient_call_tool(c)

\* ------------------------------------------------- the classifier alone
\* no verdict yet
Unclassified == Msg("unset", "")

\* the code string handed to the classifier
InitClassify(c) ==
  /\ cls_code = c
  /\ cls_verdict = Unclassified

\* security.py:51-119  check_dangerous_operation(code) is called
Classify ==
  /\ cls_verdict = Unclassified
  /\ cls_verdict' = SecurityChecker_check_dangerous_operation(cls_code)
  /\ UNCHANGED << cls_code, clientVars, serverVars, uiVars, sessVars, sbVars,
                  plVars, jsVars, dsVars, extVars >>

\* --------------------------------------------------- the sandbox alone
MaxStmts == 2

\* module names as import hands them to __import__, split at the dots
Modules ==
  { << "os" >>, << "os", "path" >>, << "pathlib" >>, << "shutil" >>,
    << "json" >>, << "sys" >>, << "subprocess" >>, << "socket" >>,
    << "http", "client" >>, << "httpx" >>, << "pickle" >>, << "ctypes" >>,
    << "hashlib" >>, << "webbrowser" >> }

\* sandbox.py:143-159
dangerous_modules ==
  { "subprocess", "shutil", "socket",
    "http", "urllib", "ftplib", "telnetlib",
    "pickle", "marshal", "ctypes", "importlib", "builtins",
    "multiprocessing", "threading", "concurrent",
    "webbrowser", "mimetypes",
    "cmd", "pipes", "pty", "fcntl", "resource",
    "signal", "select", "selectors",
    "hashlib", "hmac", "secrets", "uuid",
    "sqlite3", "dbm", "anydbm", "gdbm",
    "configparser", "xml", "html",
    "yaml", "toml", "base64",
    "binascii", "struct", "codecs",
    "platform", "getpass", "pwd", "grp",
    "netrc", "nturl2path", "ntpath", "posixpath",
    "macpath", "os2emxpath" }

\* sandbox.py:165-172 with the first test left out
ImportDenied_SubmoduleOnly(name) ==
  \E dangerous \in dangerous_modules : Len(name) > 1 /\ name[1] = dangerous

\* sandbox.py:162-175  safe_import raises ImportError: name.split('.')[0]
\* is in the list, or name starts with an entry followed by a dot
ImportDenied(name) ==
  \/ name[1] \in dangerous_modules
  \/ \E dangerous \in dangerous_modules : Len(name) > 1 /\ name[1] = dangerous

\* exceptions the executed code can raise; the first two derive from
\* Exception, the last two from BaseException only
Exceptions == { "ImportError", "ValueError" }
BaseExceptions == Exceptions \cup { "SystemExit", "KeyboardInterrupt" }
NoExc == "none"

Stmt(op, arg) == [op |-> op, arg |-> arg]
Stmts ==
  { Stmt("print", "stdout"), Stmt("print", "stderr") }
    \cup { Stmt("import", m) : m \in Modules }
    \cup { Stmt("raise", e) : e \in BaseExceptions \ { "ImportError" } }

Programs == UNION { [1..n -> Stmts] : n \in 0..MaxStmts }

Returned(output, error) == [kind |-> "return", output |-> output, error |-> error]
Raised(e) == [kind |-> "raise", exc |-> e]
NoResult == [kind |-> "running"]

InitSandbox(c) ==
  /\ sb_code = c
  /\ sb_at = 1
  /\ sb_stdout = 0
  /\ sb_stderr = 0
  /\ sb_exc = NoExc
  /\ sb_import = << >>
  /\ sb_result = NoResult

Executing == sb_result = NoResult /\ sb_exc = NoExc /\ sb_at <= Len(sb_code)

notSandbox == << clientVars, serverVars, uiVars, sessVars, clsVars, plVars,
                jsVars, dsVars, extVars >>

\* sandbox.py:36-38  a print of the code reaches StreamingOutput.write
StreamingOutput_write ==
  /\ Executing
  /\ sb_code[sb_at].op = "print"
  /\ IF sb_code[sb_at].arg = "stdout"
       THEN sb_stdout' = sb_stdout + 1 /\ UNCHANGED sb_stderr
       ELSE sb_stderr' = sb_stderr + 1 /\ UNCHANGED sb_stdout
  /\ sb_at' = sb_at + 1
  /\ UNCHANGED << sb_code, sb_exc, sb_import, sb_result, notSandbox >>

\* sandbox.py:162-175  an import statement of the code calls safe_import
safe_import ==
  /\ Executing
  /\ sb_code[sb_at].op = "import"
  /\ LET name == sb_code[sb_at].arg
     IN  /\ sb_import' = Append(sb_import,
                                [name |-> name, denied |-> ImportDenied(name)])
         /\ sb_exc' = IF ImportDenied(name) THEN "ImportError" ELSE NoExc
  /\ sb_at' = sb_at + 1
  /\ UNCHANGED << sb_code, sb_stdout, sb_stderr, sb_result, notSandbox >>

\* sandbox.py:113  the code raises (raise ..., sys.exit(), exit())
code_raises ==
  /\ Executing
  /\ sb_code[sb_at].op = "raise"
  /\ sb_exc' = sb_code[sb_at].arg
  /\ sb_at' = sb_at + 1
  /\ UNCHANGED << sb_code, sb_stdout, sb_stderr, sb_import, sb_result,
                  notSandbox >>

\* sandbox.py:105-136  what _execute_in_sandbox does once exec is over
SandboxExecutor_execute_in_sandbox(exc, out, err) ==
  IF exc = NoExc THEN Returned(out, [text |-> "stderr", writes |-> err])
  ELSE IF exc \in Exceptions
    THEN Returned(out, [text |-> "error_trace", exc |-> exc])
  ELSE Raised(exc)

\* sandbox.py:72-89  execute_code awaits the executor future
SandboxExecutor_execute_code(exc, out, err) ==
  LET inner == SandboxExecutor_execute_in_sandbox(exc, out, err)
  IN  IF inner.kind = "raise" /\ inner.exc \in Exceptions
        THEN Returned(0, [text |-> "str(e)", exc |-> inner.exc])
        ELSE inner

\* sandbox.py:83-89, 115-136  exec is over: normally or with an exception
execute_code_done ==
  /\ sb_result = NoResult
  /\ sb_exc # NoExc \/ sb_at > Len(sb_code)
  /\ sb_result' = SandboxExecutor_execute_code(sb_exc, sb_stdout, sb_stderr)
  /\ UNCHANGED << sb_code, sb_at, sb_stdout, sb_stderr, sb_exc, sb_import,
                  notSandbox >>

NextSandbox ==
  \/ StreamingOutput_write
  \/ safe_import
  \/ code_raises
  \/ execute_code_done

\* --------------------------------------------------- the planner alone
\* a plan object {"plan": ..., "steps": [...]}
Plan(text, st) == [plan |-> text, steps |-> st]
NoPlan == Plan("none", << >>)

\* steps the backend may put in its answer: the steps of StepKinds, a step
\* with no "tool" key or an empty tool name (step.get("tool") is falsy for
\* both)
AnswerSteps == StepKinds \cup { Step("", PyArgs({"print(1)"})) }

\* what json.loads(response) in LLMClient.plan_task can be (llm.py:334-341):
\*   "dict"        an object with a plan text and a steps list
\*   "falsy"       null, {}, [], "" or 0
\*   "no_steps"    a non-empty object without a "steps" key
\*   "not_object"  a non-empty list, string or number (no .get)
\*   "unparsable"  not JSON: plan_task returns its own empty-step plan
\*   "raises"      plan_task raises
Answer(kind, st) == [kind |-> kind, steps |-> st]
NoAnswer == Answer("none", << >>)
Answers ==
  { Answer("dict", st) : st \in UNION { [1..n -> AnswerSteps] : n \in 0..MaxSteps } }
    \cup { Answer(k, << >>) :
             k \in { "falsy", "no_steps", "not_object", "unparsable", "raises" } }

\* LLMClient() and generate_python_code(query) in the fallback branch:
\* generated code, "" after a backend failure (llm.py:371-375), or the
\* constructor raises (llm.py:12-13, load_config)
GenOutcomes == { "code", "empty", "raises" }

InitPlanner(a, g) ==
  /\ pl_answer = a
  /\ pl_gen = g
  /\ pl_plan = NoPlan
  /\ pl_calls = << >>
  /\ pl_report = [kind |-> "none"]

\* llm.py:334-341  LLMClient.plan_task: the parsed answer, or on a
\* JSONDecodeError the plan {"plan": "无法生成任务计划", "steps": []}
LLMClient_plan_task(a) ==
  IF a.kind = "unparsable" THEN Answer("dict", << >>) ELSE a

\* task_planner.py:12-29  TaskPlanner.plan_task: an exception of the
\* backend call becomes the same empty-step plan
TaskPlanner_plan_task(a) ==
  IF a.kind = "raises" THEN Answer("dict", << >>) ELSE LLMClient_plan_task(a)

\* (variant of validate_plan that accepts every object)
validate_plan_Any(p) == "true"

\* task_planner.py:31-46  validate_plan: "true", "false", or "error" (an
\* AttributeError) for an answer that has no .get
validate_plan(p) ==
  IF p.kind = "falsy" THEN "false"
  ELSE IF p.kind = "not_object" THEN "error"
  ELSE IF p.kind = "no_steps" \/ p.steps = << >> THEN "false"
  ELSE IF \A k \in 1..Len(p.steps) : p.steps[k].tool # "" THEN "true"
  ELSE "false"

\* task_planner.py:79-88  the plan built around generated code
GeneratedPlan(code) ==
  Plan("execute_python_code", << Step("execute_python", PyArgs(code)) >>)
\* task_planner.py:98-107  the default plan: the query itself as the code
DefaultPlan == Plan("execute_python_code", << Step("execute_python", PyArgs({"query"})) >>)

\* task_planner.py:54-107  TaskPlanner.plan
TaskPlanner_plan(a, g) ==
  LET plan  == TaskPlanner_plan_task(a)
      valid == validate_plan(plan)
  IN  IF valid = "error" THEN DefaultPlan
      ELSE IF valid = "false"
        THEN CASE g = "code"   -> GeneratedPlan({"print(1)"})
               [] g = "empty"  -> GeneratedPlan({})
               [] OTHER        -> DefaultPlan
      ELSE Plan("model", plan.steps)

notPlanner == << clientVars, serverVars, uiVars, sessVars, clsVars, sbVars,
                jsVars, dsVars, extVars >>

\* client.py:525  plan = await self.task_planner.plan(query, self.tools)
plan_query ==
  /\ pl_plan = NoPlan
  /\ pl_answer # NoAnswer
  /\ pl_plan' = TaskPlanner_plan(pl_answer, pl_gen)
  /\ UNCHANGED << pl_answer, pl_gen, pl_calls, pl_report, notPlanner >>

\* client.py:535-584  the step loop over the returned plan: every step is
\* sent unless an interrupt is seen first (n steps sent); the report carries
\* the summaries of the sent steps, or the interrupted text, and the plan
dispatch_plan ==
  /\ pl_plan # NoPlan
  /\ pl_report.kind = "none"
  /\ \E n \in 0..Len(pl_plan.steps) :
       /\ pl_calls' = [k \in 1..n |-> pl_plan.steps[k].tool]
       /\ pl_report' = [kind |-> IF n = Len(pl_plan.steps) THEN "completed"
                                                           ELSE "interrupted",
                        summaries |-> n,
                        plan |-> pl_plan.plan]
  /\ UNCHANGED << pl_answer, pl_gen, pl_plan, notPlanner >>

NextPlanner ==
  \/ plan_query
  \/ dispatch_plan

\* ------------------------------------------------ the JSON cleaner alone
(* A response text is a sequence of tokens: the punctuation characters,   *)
(* string literals with their quotes (non-empty, letters only), a lone    *)
(* double quote, white space, the markdown fences and the two slashes     *)
(* of a comment.  The regular expressions of validate_and_fix_json are    *)
(* anchored on quotes and colons, and a literal never starts with a      *)
(* colon, so a match always begins and ends at token boundaries.          *)
MaxDocSteps == 1

Literals == { "plan", "steps", "tool", "x", "t" }
Quote == "quote"
Space == "space"
Newline == "newline"
WhiteSpace == { Space, Newline }
FenceJson == "fence_json"
Fence == "fence"
Comment == "slashes"

Insert(s, k, t) == SubSeq(s, 1, k - 1) \o << t >> \o SubSeq(s, k, Len(s))
Delete(s, k) == SubSeq(s, 1, k - 1) \o SubSeq(s, k + 1, Len(s))
Count(s, toks) == Cardinality({ k \in 1..Len(s) : s[k] \in toks })
At(s, k, toks) == k >= 1 /\ k <= Len(s) /\ s[k] \in toks

\* the first index from k on that holds no white space (the pattern \s*)
RECURSIVE Skip(_, _)
Skip(s, k) == IF At(s, k, WhiteSpace) THEN Skip(s, k + 1) ELSE k

\* the last index down from k that holds no white space
RECURSIVE SkipBack(_, _)
SkipBack(s, k) == IF At(s, k, WhiteSpace) THEN SkipBack(s, k - 1) ELSE k

\* (variant: only leading white space is removed)
strip_Left(s) == SubSeq(s, Skip(s, 1), Len(s))

\* str.strip()
strip(s) == SubSeq(s, Skip(s, 1), SkipBack(s, Len(s)))

\* the end of a string that opens with a lone quote at k: the index after
\* its closing quote, 0 if a literal, a newline (a control character) or the
\* end of the text comes first
RECURSIVE StringEnd(_, _)
StringEnd(s, k) ==
  IF k > Len(s) \/ s[k] \in Literals \cup {Newline} THEN 0
  ELSE IF s[k] = Quote THEN k + 1
  ELSE StringEnd(s, k + 1)

\* json.loads as a recursive-descent parser: the index after the value that
\* starts at k (white space skipped), 0 if there is none
RECURSIVE ParseValue(_, _), ParseMembers(_, _), ParseElements(_, _)
ParseValue(s, k) ==
  LET j == Skip(s, k)
  IN  IF j > Len(s) THEN 0
      ELSE IF s[j] \in Literals THEN j + 1
      ELSE IF s[j] = Quote THEN StringEnd(s, j + 1)
      ELSE IF s[j] = "{"
        THEN IF At(s, Skip(s, j + 1), {"}"}) THEN Skip(s, j + 1) + 1
             ELSE ParseMembers(s, j + 1)
      ELSE IF s[j] = "["
        THEN IF At(s, Skip(s, j + 1), {"]"}) THEN Skip(s, j + 1) + 1
             ELSE ParseElements(s, j + 1)
      ELSE 0

\* "key" : value, then a comma and more members, or the closing brace
ParseMembers(s, k) ==
  LET j == Skip(s, k)
      key == IF At(s, j, Literals) THEN j + 1
             ELSE IF At(s, j, {Quote}) THEN StringEnd(s, j + 1)
             ELSE 0
      c == Skip(s, key)
      v == IF key # 0 /\ At(s, c, {":"}) THEN ParseValue(s, c + 1) ELSE 0
      e == Skip(s, v)
  IN  IF v = 0 THEN 0
      ELSE IF At(s, e, {","}) THEN ParseMembers(s, e + 1)
      ELSE IF At(s, e, {"}"}) THEN e + 1
      ELSE 0

\* value, then a comma and more elements, or the closing bracket
ParseElements(s, k) ==
  LET v == ParseValue(s, k)
      e == Skip(s, v)
  IN  IF v = 0 THEN 0
      ELSE IF At(s, e, {","}) THEN ParseElements(s, e + 1)
      ELSE IF At(s, e, {"]"}) THEN e + 1
      ELSE 0

\* json.loads(s) does not raise JSONDecodeError
json_loads(s) ==
  LET v == ParseValue(s, 1)
  IN  v # 0 /\ Skip(s, v) > Len(s)

\* llm.py:107-110  control characters (the newlines among them) are removed
RemoveControl(s) == SelectSeq(s, LAMBDA t : t # Newline)

\* the first index from k on that holds a quote (a literal or a lone quote)
RECURSIVE NextQuote(_, _)
NextQuote(s, k) ==
  IF k > Len(s) \/ s[k] \in Literals \cup {Quote} THEN k ELSE NextQuote(s, k + 1)

\* llm.py:119  the substitution for an unclosed string: a key and colon, a
\* quote, text without quotes, the next key and colon; the closing quote, a
\* comma and a space are put before the next key (exact on texts without
\* lone quotes, where it never matches)
RECURSIVE SubUnclosed(_, _)
SubUnclosed(s, k) ==
  IF k > Len(s) THEN << >>
  ELSE LET q == Skip(s, k + 2)
           m == NextQuote(s, q + 1)
       IN  IF /\ s[k] \in Literals /\ At(s, k + 1, {":"}) /\ At(s, q, {Quote})
              /\ At(s, m, Literals) /\ At(s, m + 1, {":"})
             THEN SubSeq(s, k, m - 1) \o << Quote, ",", Space, s[m], ":" >>
                    \o SubUnclosed(s, m + 2)
             ELSE << s[k] >> \o SubUnclosed(s, k + 1)

\* llm.py:123  the substitution for a comma at the start of an object: the
\* brace, the comma, the first key and its colon become brace, space, quote
RECURSIVE SubLeadingComma(_, _)
SubLeadingComma(s, k) ==
  IF k > Len(s) THEN << >>
  ELSE LET c == Skip(s, k + 1)
           m == Skip(s, c + 1)
       IN  IF /\ s[k] = "{" /\ At(s, c, {","})
              /\ At(s, m, Literals) /\ At(s, m + 1, {":"})
             THEN << "{", Space, Quote >> \o SubLeadingComma(s, m + 2)
             ELSE << s[k] >> \o SubLeadingComma(s, k + 1)

\* llm.py:125  the substitution for a doubled comma between a member with
\* a string value and the next key: one comma and a space are left
RECURSIVE SubDoubleComma(_, _)
SubDoubleComma(s, k) ==
  IF k > Len(s) THEN << >>
  ELSE LET v  == Skip(s, k + 2)
           c2 == Skip(s, v + 2)
           m  == Skip(s, c2 + 1)
       IN  IF /\ s[k] \in Literals /\ At(s, k + 1, {":"}) /\ At(s, v, Literals)
              /\ At(s, v + 1, {","}) /\ At(s, c2, {","})
              /\ At(s, m, Literals) /\ At(s, m + 1, {":"})
             THEN SubSeq(s, k, v) \o << ",", Space, s[m], ":" >>
                    \o SubDoubleComma(s, m + 2)
             ELSE << s[k] >> \o SubDoubleComma(s, k + 1)

\* llm.py:129  the substitution for a missing comma between a member with
\* a string value and the next key right behind it
RECURSIVE SubMissingComma(_, _)
SubMissingComma(s, k) ==
  IF k > Len(s) THEN << >>
  ELSE LET v == Skip(s, k + 2)
       IN  IF /\ s[k] \in Literals /\ At(s, k + 1, {":"}) /\ At(s, v, Literals)
              /\ At(s, v + 1, Literals) /\ At(s, v + 2, {":"})
             THEN SubSeq(s, k, v) \o << ",", Space, s[v + 1], ":" >>
                    \o SubMissingComma(s, v + 3)
             ELSE << s[k] >> \o SubMissingComma(s, k + 1)

\* the last index of s that holds one of toks, 0 if none (str.rfind)
RECURSIVE RFind(_, _, _)
RFind(s, k, toks) ==
  IF k = 0 \/ s[k] \in toks THEN k ELSE RFind(s, k - 1, toks)

\* llm.py:133-142  an odd number of quote characters: one more quote is put
\* right after the last one, if that comes after the last colon
FixQuotes(s) ==
  LET quote_count == 2 * Count(s, Literals) + Count(s, {Quote})
      last_colon  == RFind(s, Len(s), {":"})
      last_quote  == RFind(s, Len(s), Literals \cup {Quote})
  IN  IF quote_count % 2 # 0 /\ last_colon # 0 /\ last_quote > last_colon
        THEN Insert(s, last_quote + 1, Quote)
        ELSE s

Repeat(t, n) == [k \in 1..n |-> t]

\* llm.py:145-157  missing closers are appended, missing openers prepended
FixBalance(s, open, close) ==
  LET o == Count(s, {open})
      c == Count(s, {close})
  IN  IF o > c THEN s \o Repeat(close, o - c)
      ELSE IF c > o THEN Repeat(open, c - o) \o s
      ELSE s

\* llm.py:83-167  validate_and_fix_json
validate_and_fix_json(json_str) ==
  IF json_loads(json_str) THEN json_str
  ELSE LET a == SubUnclosed(RemoveControl(json_str), 1)
           b == SubLeadingComma(a, 1)
           c == SubDoubleComma(b, 1)
           d == SubMissingComma(c, 1)
           e == FixQuotes(d)
           f == FixBalance(e, "{", "}")
           fixed_json == FixBalance(f, "[", "]")
       IN  IF json_loads(fixed_json) THEN fixed_json ELSE json_str

\* llm.py:183-188  the markdown fences at the two ends
RemoveFences(s) ==
  LET a == IF At(s, 1, {FenceJson}) THEN Tail(s) ELSE s
      b == IF At(a, 1, {Fence}) THEN Tail(a) ELSE a
  IN  IF At(b, Len(b), {Fence}) THEN SubSeq(b, 1, Len(b) - 1) ELSE b

\* llm.py:191-205  line by line: a line with an odd number of quotes flips
\* in_string; outside a string the line is cut at its first two slashes
RECURSIVE RemoveComments(_, _, _, _)
RemoveComments(s, k, in_string, cut) ==
  IF k > Len(s) THEN << >>
  ELSE LET nl     == CHOOSE n \in k..(Len(s) + 1) :
                       /\ n > Len(s) \/ s[n] = Newline
                       /\ \A j \in k..(n - 1) : s[j] # Newline
           line   == SubSeq(s, k, nl - 1)
           odd    == (2 * Count(line, Literals) + Count(line, {Quote})) % 2 # 0
           inside == IF k = 1 \/ s[k - 1] = Newline
                       THEN (IF odd THEN ~in_string ELSE in_string)
                       ELSE in_string
           cutNow == IF k = 1 \/ s[k - 1] = Newline THEN FALSE ELSE cut
       IN  IF s[k] = Newline
             THEN << Newline >> \o RemoveComments(s, k + 1, inside, FALSE)
           ELSE IF cutNow \/ (~inside /\ s[k] = Comment)
             THEN RemoveComments(s, k + 1, inside, TRUE)
           ELSE << s[k] >> \o RemoveComments(s, k + 1, inside, FALSE)

\* llm.py:169-210  clean_json_response
clean_json_response(response) ==
  LET r == strip(response)
  IN  IF json_loads(r) THEN r
      ELSE validate_and_fix_json(
             strip(RemoveComments(RemoveFences(r), 1, FALSE, FALSE)))

\* the plan objects the planning prompt asks for (llm.py:329), with n steps
StepTokens == << "{", "tool", ":", "t", "}" >>
RECURSIVE StepList(_)
StepList(n) ==
  IF n = 0 THEN << >>
  ELSE IF n = 1 THEN StepTokens
  ELSE StepList(n - 1) \o << "," >> \o StepTokens
PlanDoc(n) ==
  << "{", "plan", ":", "x", ",", "steps", ":", "[" >> \o StepList(n)
     \o << "]", "}" >>
Docs == { PlanDoc(n) : n \in 0..MaxDocSteps }

\* what the backend may answer instead of the document d
Response(d, kind, text) == [doc |-> d, kind |-> kind, text |-> text]
Responses ==
  UNION { { Response(d, "exact", d),
            Response(d, "padded", << Space >> \o d \o << Newline >>),
            Response(d, "padded", << Newline >> \o d),
            Response(d, "padded", Insert(d, 2, Newline) \o << Newline >>),
            Response(d, "fenced",
                     << FenceJson, Newline >> \o d \o << Newline, Fence >>),
            Response(d, "commented", d \o << Space, Comment, Space >>) }
          \cup { Response(d, "trailing_comma", Insert(d, k, ",")) :
                   k \in { j \in 2..Len(d) :
                             d[j] \in {"}", "]"} /\ d[j - 1] \notin {"{", "["} } }
          \cup { Response(d, "stray_comma", Insert(d, k, ",")) :
                   k \in { j \in 2..Len(d) :
                             d[j] \notin {"}", "]"} \/ d[j - 1] \in {"{", "["} } }
          \cup { Response(d, "missing_brace", Delete(d, k)) :
                   k \in { j \in 1..Len(d) : d[j] \in {"{", "}"} } }
          \cup { Response(d, "extra_brace", Insert(d, k, d[k])) :
                   k \in { j \in 1..Len(d) : d[j] \in {"{", "}"} } }
          : d \in Docs }

NotRun == << "not_run" >>

InitJson(d, kind, text) ==
  /\ js_doc = d
  /\ js_kind = kind
  /\ js_in = text
  /\ js_fixed = NotRun
  /\ js_out = NotRun
  /\ js_again = NotRun

notJson == << clientVars, serverVars, uiVars, sessVars, clsVars, sbVars,
              plVars, dsVars, extVars >>

\* llm.py:83  validate_and_fix_json is called on the response
call_validate_and_fix_json ==
  /\ js_kind # "none"
  /\ js_fixed = NotRun
  /\ js_fixed' = validate_and_fix_json(js_in)
  /\ UNCHANGED << js_doc, js_kind, js_in, js_out, js_again, notJson >>

\* llm.py:332  response = self.clean_json_response(response)
call_clean_json_response ==
  /\ js_kind # "none"
  /\ js_out = NotRun
  /\ js_out' = clean_json_response(js_in)
  /\ UNCHANGED << js_doc, js_kind, js_in, js_fixed, js_again, notJson >>

\* the cleaned text is cleaned once more
call_clean_again ==
  /\ js_out # NotRun
  /\ js_again = NotRun
  /\ js_again' = clean_json_response(js_out)
  /\ UNCHANGED << js_doc, js_kind, js_in, js_fixed, js_out, notJson >>

NextJson ==
  \/ call_validate_and_fix_json
  \/ call_clean_json_response
  \/ call_clean_again

\* --------------------------------------- one send_tool_call, all attempts
\* the global manager as send_tool_call can find it: never connected,
\* connected, connected with the connection since lost, closed again, or
\* left by a connect that failed
Channels ==
  { NewManager,
    ConnectBody(NewManager, "ok"),
    [ConnectBody(NewManager, "ok") EXCEPT !.dead = TRUE],
    SessionManager_close(ConnectBody(NewManager, "ok")) }
  \cup { SessionManager_connect(NewManager, o).m :
           o \in ConnectOutcomes \ {"ok"} }

\* an entry of the log: a connect that went past the connected check, or a
\* session.call_tool, with how it ended
Made(op, outcome) == [op |-> op, outcome |-> outcome]

NotReturned == "not_returned"

InitSend(m, held, at) ==
  /\ ds_mgr = m
  /\ ds_held = held
  /\ ds_pc = at
  /\ ds_attempt = 0
  /\ ds_log = << >>
  /\ ds_result = NotReturned

notSend == << clientVars, serverVars, uiVars, sessVars, clsVars, sbVars,
              plVars, jsVars, extVars >>

\* client.py:240-241  if not self.session_manager: await self.connect().
\* MCPClient.connect (198-215) stores the global manager, connects it, and
\* turns a failure into the return value False, which is not looked at
send_tool_call_enter ==
  /\ ds_pc = "enter"
  /\ IF ~ds_held
       THEN \E o \in OutcomesIf(~AlreadyConnected(ds_mgr)) :
              LET r == SessionManager_connect(ds_mgr, o)
              IN  /\ ds_mgr' = r.m
                  /\ ds_log' = IF r.opened
                                 THEN Append(ds_log, Made("connect", o))
                                 ELSE ds_log
       ELSE UNCHANGED << ds_mgr, ds_log >>
  /\ ds_held' = TRUE
  /\ ds_pc' = "attempt"
  /\ UNCHANGED << ds_attempt, ds_result, notSend >>

\* what one session_manager.call_tool adds to the log
LogOfCall(m, o, r) ==
  (IF NeedsConnect(m) THEN << Made("connect", o) >> ELSE << >>)
    \o (IF r.invoked
          THEN << Made("call_tool", IF r.raised THEN "lost" ELSE "ok") >>
          ELSE << >>)

\* client.py:244-292  one round of the loop: session_manager.call_tool
\* (138-156, with its own connect when the manager is not connected); a
\* result is returned, an exception is re-raised on the last attempt and
\* otherwise followed by sleep(1) and the next round
send_tool_call_attempt ==
  /\ ds_pc = "attempt"
  /\ \E o \in OutcomesIf(NeedsConnect(ds_mgr)), co \in CallOutcomes :
       LET r == SessionManager_call_tool(ds_mgr, o, co)
       IN  /\ ds_mgr' = r.m
           /\ ds_log' = ds_log \o LogOfCall(ds_mgr, o, r)
           /\ IF ~r.raised
                THEN /\ ds_result' = "tool_response"
                     /\ ds_pc' = "returned"
                     /\ UNCHANGED ds_attempt
              ELSE IF LastAttempt(ds_attempt)
                THEN /\ ds_result' = r.error
                     /\ ds_pc' = "raised"
                     /\ UNCHANGED ds_attempt
              ELSE /\ ds_attempt' = ds_attempt + 1
                   /\ UNCHANGED << ds_result, ds_pc >>
  /\ UNCHANGED << ds_held, notSend >>

NextSend ==
  \/ send_tool_call_enter
  \/ send_tool_call_attempt

\* everything outside the further parts
baseVars == << clientVars, serverVars, uiVars, sessVars, clsVars, sbVars,
               plVars, jsVars, dsVars >>

notDelete == << baseVars, cmVars, soVars, pyVars, cxVars, rcVars, rgVars >>

\* ------------------------------------- the paths of the delete message
\* number of path literals 'f1' .. 'fN' the code can name
MaxDelPaths == 6

\* security.py:182  filtered_paths[:5]
MaxShown == 5

\* literal path arguments by number: n stands for 'f<n>', and PathA for 'a',
\* which is also one of the filter keywords of _extract_file_paths
\* (security.py:134)
PathA == 0
DelPaths == {PathA} \cup 1..MaxDelPaths

\* the delete calls of the code: os.remove('...') and os.unlink('...')
DelCallKinds == {"os.remove", "os.unlink"}
DelCall(op, path) == [op |-> op, path |-> path]
DelCodes == SUBSET { DelCall(op, p) : op \in DelCallKinds, p \in DelPaths }

\* the patterns of dangerous_delete_patterns (security.py:71-81) that occur
\* in the text of a call of kind op
PatternsIn(op) ==
  CASE op = "os.remove" -> {"os.remove", ".remove"}
    [] op = "os.unlink" -> {"os.unlink", ".unlink"}

\* position of a path in the iteration order of a set of strings: fixed
\* for one run of the process, different between runs (string hashing);
\* first is the path the order starts with
RankOf(p, first) == (p - first + MaxDelPaths + 1) % (MaxDelPaths + 1)

\* the first k elements of paths in that order
RECURSIVE FirstOf(_, _, _)
FirstOf(paths, k, first) ==
  IF k = 0 \/ paths = {} THEN {}
  ELSE LET p == CHOOSE q \in paths :
                  \A o \in paths : RankOf(q, first) <= RankOf(o, first)
       IN  {p} \cup FirstOf(paths \ {p}, k - 1, first)

\* no cut: every path is returned
Shown_All(paths, first) == paths

\* security.py:182  return filtered_paths[:5]
Shown(paths, first) == FirstOf(paths, MaxShown, first)

\* security.py:121-182  _extract_file_paths(code, [operation]): the quoted
\* strings inside the parentheses of every match of the operation, without
\* the filter keywords, as a set, cut to the first five
SecurityChecker_extract_file_paths(code, operation, first) ==
  LET found == { c.path : c \in { d \in code : operation \in PatternsIn(d.op) } }
  IN  Shown(found \ {PathA}, first)

\* security.py:83-96  the delete branch of check_dangerous_operation: the
\* paths of every pattern that occurs are collected in the set delete_files
DeleteMessage(code, first) ==
  UNION { SecurityChecker_extract_file_paths(code, operation, first) :
            operation \in UNION { PatternsIn(c.op) : c \in code } }

\* the check has not run: no list of paths yet
NoMessage == {-1}

InitDelete(code, first) ==
  /\ dl_code = code
  /\ dl_first = first
  /\ dl_listed = NoMessage

\* security.py:51-96  check_dangerous_operation on code whose only matches
\* are delete calls
check_delete ==
  /\ dl_code # {}
  /\ dl_listed = NoMessage
  /\ dl_listed' = DeleteMessage(dl_code, dl_first)
  /\ UNCHANGED << dl_code, dl_first, notDelete >>

notCommand == << baseVars, dlVars, soVars, pyVars, cxVars, rcVars, rgVars >>

\* ------------------------------------------- the system command check
\* the command signatures of _load_dangerous_patterns that are not Python
\* code (security.py:20-34, 45-48), by the text they stand for; ls is on no
\* list
Signatures ==
  { "rm -rf", "format", "del /f /s /q", "Remove-Item -Recurse -Force",
    "shutdown", "reboot", "halt", "poweroff", "netstat", "arp",
    "ipconfig /all", "sudo", "su", "passwd" }

\* a command: the words of a signature or ls, the letter case they are
\* written in (lower, upper, or mixed: capitalised as Remove-Item is), and
\* whether arguments follow after white space
Command(words, case, args) == [words |-> words, case |-> case, args |-> args]
Commands ==
  { Command(w, c, a) :
      w \in Signatures \cup {"ls"}, c \in {"lower", "upper", "mixed"},
      a \in BOOLEAN }

\* (variant: the command is matched as it was written)
lower_Keep(command) == command

\* str.lower()
lower(command) == [command EXCEPT !.case = "lower"]

\* the letter case the pattern is written in (security.py:21-48)
PatternCase(sig) ==
  IF sig = "Remove-Item -Recurse -Force" THEN "mixed" ELSE "lower"

\* the pattern ends in white space (all but rm -rf, del /f /s /q, Remove-Item
\* and ipconfig /all)
NeedsSpaceAfter(sig) ==
  sig \notin { "rm -rf", "del /f /s /q", "Remove-Item -Recurse -Force",
               "ipconfig /all" }

\* re.search(pattern, text): the search is case-sensitive
re_search(sig, text) ==
  /\ text.words = sig
  /\ text.case = PatternCase(sig)
  /\ NeedsSpaceAfter(sig) => text.args

\* config.py:46  security.dangerous_commands of the default configuration
dangerous_commands == { "rm -rf", "format", "shutdown", "reboot" }

\* security.py:256-273  _check_system_command: True when the command is safe
SecurityChecker_check_system_command(command) ==
  LET command_lower == lower(command)
  IN  IF \E pattern \in Signatures : re_search(pattern, command_lower)
        THEN FALSE
      ELSE IF \E dangerous_cmd \in dangerous_commands :
                /\ command_lower.words = dangerous_cmd
                /\ command_lower.case = "lower"
        THEN FALSE
      ELSE TRUE

Unchecked == "unchecked"

InitCommand(command) ==
  /\ cm_command = command
  /\ cm_safe = Unchecked

NoCommand == Command("", "lower", FALSE)

\* security.py:196-201  check_tool_call for a system_command
check_system_command ==
  /\ cm_command # NoCommand
  /\ cm_safe = Unchecked
  /\ cm_safe' = IF SecurityChecker_check_system_command(cm_command)
                  THEN "safe" ELSE "unsafe"
  /\ UNCHANGED << cm_command, notCommand >>

notStream == << baseVars, dlVars, cmVars, pyVars, cxVars, rcVars, rgVars >>

\* --------------------------------------- output chunks and the callback
MaxChunks == 3

Callbacks == {"none", "sync", "async"}
Prints == UNION { [1..n -> {"stdout", "stderr"}] : n \in 1..MaxChunks }

InitStream(callback, code) ==
  /\ so_callback = callback
  /\ so_code = code
  /\ so_at = 1
  /\ so_out = 0
  /\ so_err = 0
  /\ so_sent = 0
  /\ so_exc = NoExc
  /\ so_result = NoResult

Printing == so_result = NoResult /\ so_exc = NoExc /\ so_at <= Len(so_code)

\* (variant: the direct call is guarded like the scheduled one)
Escapes_Never(callback) == FALSE

\* sandbox.py:41-54  a failing delivery leaves write as an exception: not
\* from the try block of the coroutine branch (43-51), but from the direct
\* call of a plain function (54)
Escapes(callback) == callback = "sync"

\* sandbox.py:36-54  StreamingOutput.write: the text goes to the buffer,
\* then to the callback if there is one; failed says the delivery raised
\* (the callback itself, or run_coroutine_threadsafe / run_until_complete)
StreamingOutput_write_callback ==
  /\ Printing
  /\ IF so_code[so_at] = "stdout"
       THEN so_out' = so_out + 1 /\ UNCHANGED so_err
       ELSE so_err' = so_err + 1 /\ UNCHANGED so_out
  /\ \E failed \in (IF so_callback = "none" THEN {FALSE} ELSE BOOLEAN) :
       /\ so_sent' = IF so_callback = "none" \/ failed THEN so_sent
                     ELSE so_sent + 1
       /\ so_exc' = IF failed /\ Escapes(so_callback) THEN "ValueError"
                    ELSE NoExc
  /\ so_at' = so_at + 1
  /\ UNCHANGED << so_callback, so_code, so_result, notStream >>

\* sandbox.py:83-89, 115-136  exec is over: normally or with the exception
\* that left write
stream_done ==
  /\ so_result = NoResult
  /\ so_code # << >>
  /\ so_exc # NoExc \/ so_at > Len(so_code)
  /\ so_result' = SandboxExecutor_execute_code(so_exc, so_out, so_err)
  /\ UNCHANGED << so_callback, so_code, so_at, so_out, so_err, so_sent,
                  so_exc, notStream >>

NextStream ==
  \/ StreamingOutput_write_callback
  \/ stream_done

notPython == << baseVars, dlVars, cmVars, soVars, cxVars, rcVars, rgVars >>

\* ------------------------------------------- the two code classifiers
\* code that imports os and uses it
OsFragments == { "import os", "os.popen(c)", "os.kill(p,9)" }

PythonCodes ==
  { c \in SUBSET (Fragments \cup OsFragments) : Cardinality(c) <= MaxFrags }

\* security.py:218-222
PythonDangerousKeywords ==
  << "os.system", "subprocess", "eval(", "exec(", "__import__", "compile(",
     "pickle", "marshal", "socket", "urllib", "requests", "http.client",
     "https.client" >>

\* security.py:237
dangerous_os_patterns ==
  { "os.system", "os.popen", "os.spawn", "os.exec", "os.fork", "os.kill" }

\* (variant: os is judged by the keyword list only)
DangerousOsUse_Never(code) == FALSE

\* security.py:234-239  the code imports os and uses one of the patterns
DangerousOsUse(code) ==
  /\ Contains(code, "import os")
  /\ \E pattern \in dangerous_os_patterns : Contains(code, pattern)

\* security.py:209-254  _check_python_code: True when the code is safe
SecurityChecker_check_python_code(code) ==
  IF FirstHit(code, PythonDangerousKeywords) # 0 THEN FALSE
  ELSE IF DangerousOsUse(code) THEN FALSE
  ELSE IF /\ Contains(code, "open(")
          /\ \E mode \in ServerWriteModes : Contains(code, mode)
    THEN FALSE
  ELSE TRUE

InitPython(code) ==
  /\ py_code = code
  /\ py_safe = Unchecked
  /\ py_message = Unclassified

\* security.py:184-195  check_tool_call("execute_python", {"code": code})
check_tool_call ==
  /\ py_code # {}
  /\ py_safe = Unchecked
  /\ py_safe' = IF SecurityChecker_check_python_code(py_code)
                  THEN "true" ELSE "false"
  /\ UNCHANGED << py_code, py_message, notPython >>

\* server.py:94  check_dangerous_operation(code) on the same code
check_dangerous_operation ==
  /\ py_code # {}
  /\ py_message = Unclassified
  /\ py_message' = SecurityChecker_check_dangerous_operation(py_code)
  /\ UNCHANGED << py_code, py_safe, notPython >>

NextPython ==
  \/ check_tool_call
  \/ check_dangerous_operation

notExecutions == << baseVars, dlVars, cmVars, soVars, pyVars, rcVars, rgVars >>

\* ------------------------------------------- executions side by side
MaxExecs == 2
MaxWrites == 1

Execs == 1..MaxExecs

\* the stream the process started with; other streams are captures, named
\* by their execution
Original == 0

NotRead == << -1 >>

InitExecutions(at) ==
  /\ sys_stdout = Original
  /\ sys_stderr = Original
  /\ cx_pc = [e \in Execs |-> at]
  /\ cx_old = [e \in Execs |-> [stdout |-> Original, stderr |-> Original]]
  /\ cx_buffer = [e \in Execs |-> << >>]
  /\ cx_written = [e \in Execs |-> 0]
  /\ cx_output = [e \in Execs |-> NotRead]

\* (variant: the original stream is put back, not the one found at entry)
Restored_Original(old) == Original

\* sandbox.py:133-134  sys.stdout = old_stdout, sys.stderr = old_stderr
Restored(old) == old

\* sandbox.py:94  old_stdout = sys.stdout
save_stdout(e) ==
  /\ cx_pc[e] = "save_stdout"
  /\ cx_old' = [cx_old EXCEPT ![e].stdout = sys_stdout]
  /\ cx_pc' = [cx_pc EXCEPT ![e] = "save_stderr"]
  /\ UNCHANGED << sys_stdout, sys_stderr, cx_buffer, cx_written, cx_output,
                  notExecutions >>

\* sandbox.py:95  old_stderr = sys.stderr
save_stderr(e) ==
  /\ cx_pc[e] = "save_stderr"
  /\ cx_old' = [cx_old EXCEPT ![e].stderr = sys_stderr]
  /\ cx_pc' = [cx_pc EXCEPT ![e] = "set_stdout"]
  /\ UNCHANGED << sys_stdout, sys_stderr, cx_buffer, cx_written, cx_output,
                  notExecutions >>

\* sandbox.py:97-100  sys.stdout = stdout_capture
set_stdout(e) ==
  /\ cx_pc[e] = "set_stdout"
  /\ sys_stdout' = e
  /\ cx_pc' = [cx_pc EXCEPT ![e] = "set_stderr"]
  /\ UNCHANGED << sys_stderr, cx_old, cx_buffer, cx_written, cx_output,
                  notExecutions >>

\* sandbox.py:101  sys.stderr = stderr_capture
set_stderr(e) ==
  /\ cx_pc[e] = "set_stderr"
  /\ sys_stderr' = e
  /\ cx_pc' = [cx_pc EXCEPT ![e] = "exec"]
  /\ UNCHANGED << sys_stdout, cx_old, cx_buffer, cx_written, cx_output,
                  notExecutions >>

\* sandbox.py:113  a print of the code of e writes to what sys.stdout is now;
\* text written to the original stream is in no buffer
exec_print(e) ==
  /\ cx_pc[e] = "exec"
  /\ cx_written[e] < MaxWrites
  /\ cx_written' = [cx_written EXCEPT ![e] = @ + 1]
  /\ cx_buffer' = IF sys_stdout = Original THEN cx_buffer
                  ELSE [cx_buffer EXCEPT ![sys_stdout] = Append(@, e)]
  /\ UNCHANGED << sys_stdout, sys_stderr, cx_pc, cx_old, cx_output,
                  notExecutions >>

\* sandbox.py:116-122  output = stdout_capture.getvalue()
getvalue(e) ==
  /\ cx_pc[e] = "exec"
  /\ cx_output' = [cx_output EXCEPT ![e] = cx_buffer[e]]
  /\ cx_pc' = [cx_pc EXCEPT ![e] = "restore_stdout"]
  /\ UNCHANGED << sys_stdout, sys_stderr, cx_old, cx_buffer, cx_written,
                  notExecutions >>

\* sandbox.py:133  sys.stdout = old_stdout
restore_stdout(e) ==
  /\ cx_pc[e] = "restore_stdout"
  /\ sys_stdout' = Restored(cx_old[e].stdout)
  /\ cx_pc' = [cx_pc EXCEPT ![e] = "restore_stderr"]
  /\ UNCHANGED << sys_stderr, cx_old, cx_buffer, cx_written, cx_output,
                  notExecutions >>

\* sandbox.py:134  sys.stderr = old_stderr
restore_stderr(e) ==
  /\ cx_pc[e] = "restore_stderr"
  /\ sys_stderr' = Restored(cx_old[e].stderr)
  /\ cx_pc' = [cx_pc EXCEPT ![e] = "done"]
  /\ UNCHANGED << sys_stdout, cx_old, cx_buffer, cx_written, cx_output,
                  notExecutions >>

NextExecutions ==
  \E e \in Execs :
    \/ save_stdout(e) \/ save_stderr(e) \/ set_stdout(e) \/ set_stderr(e)
    \/ exec_print(e) \/ getvalue(e)
    \/ restore_stdout(e) \/ restore_stderr(e)

notRetry == << baseVars, dlVars, cmVars, soVars, pyVars, cxVars, rgVars >>

\* -------------------------------- send_tool_call and retry_attempts
MaxRetry == 3

\* values of retry_attempts a configuration file can hold
RetryChoices == -1..MaxRetry

\* what the tool's result looks like to the parsing of client.py:250-282
Shapes == {"json_dict", "json_other", "text", "data", "empty", "no_content"}

Outcome(type, result, att) ==
  [type |-> type, result |-> result, attempt |-> att]

NoOutcome == Outcome("none", "", -1)

\* client.py:250-282  every shape is returned as a tool_response
ParsedResult(shape, att) ==
  Outcome("tool_response",
          CASE shape = "json_dict"  -> "parsed"
            [] shape = "json_other" -> "text"
            [] shape = "text"       -> "text"
            [] shape = "data"       -> "data"
            [] OTHER                -> "str(result)",
          att)

\* client.py:299-302
GenericError == Outcome("error", "tool call failed", -1)

InitRetry(retry_attempts, m, held, at) ==
  /\ rc_retry = retry_attempts
  /\ rc_mgr = m
  /\ rc_held = held
  /\ rc_pc = at
  /\ rc_attempt = 0
  /\ rc_log = << >>
  /\ rc_result = NoOutcome

\* client.py:244  attempt is in range(retry_attempts)
InRange(att, retry_attempts) == att >= 0 /\ att < retry_attempts

\* (variant: no attempt is taken for the last one)
IsLastAttempt_Never(att, retry_attempts) == FALSE

\* client.py:289  if attempt == retry_attempts - 1
IsLastAttempt(att, retry_attempts) == att = retry_attempts - 1

\* client.py:240-243  connect when no manager is held (the result of connect
\* is not looked at), then read retry_attempts
retry_enter ==
  /\ rc_pc = "enter"
  /\ IF ~rc_held
       THEN \E o \in OutcomesIf(~AlreadyConnected(rc_mgr)) :
              rc_mgr' = SessionManager_connect(rc_mgr, o).m
       ELSE UNCHANGED rc_mgr
  /\ rc_held' = TRUE
  /\ rc_pc' = "loop"
  /\ UNCHANGED << rc_retry, rc_attempt, rc_log, rc_result, notRetry >>

\* client.py:244-297  one round of the loop
retry_round ==
  /\ rc_pc = "loop"
  /\ InRange(rc_attempt, rc_retry)
  /\ \E o \in OutcomesIf(NeedsConnect(rc_mgr)), co \in CallOutcomes,
        shape \in Shapes :
       LET r == SessionManager_call_tool(rc_mgr, o, co)
       IN  /\ rc_mgr' = r.m
           /\ rc_log' = Append(rc_log, IF r.raised THEN r.error ELSE "ok")
           /\ IF ~r.raised
                THEN /\ rc_result' = ParsedResult(shape, rc_attempt)
                     /\ rc_pc' = "returned"
                     /\ UNCHANGED rc_attempt
              ELSE IF IsLastAttempt(rc_attempt, rc_retry)
                THEN /\ rc_result' = Outcome("raised", r.error, rc_attempt)
                     /\ rc_pc' = "raised"
                     /\ UNCHANGED rc_attempt
              ELSE IF rc_attempt < rc_retry - 1
                THEN /\ rc_attempt' = rc_attempt + 1
                     /\ UNCHANGED << rc_result, rc_pc >>
              ELSE /\ rc_result' = Outcome("error", r.error, rc_attempt)
                   /\ rc_pc' = "returned"
                   /\ UNCHANGED rc_attempt
  /\ UNCHANGED << rc_retry, rc_held, notRetry >>

\* client.py:299-302  the loop is over
retry_over ==
  /\ rc_pc = "loop"
  /\ ~InRange(rc_attempt, rc_retry)
  /\ rc_result' = GenericError
  /\ rc_pc' = "returned"
  /\ UNCHANGED << rc_retry, rc_mgr, rc_held, rc_attempt, rc_log, notRetry >>

NextRetry ==
  \/ retry_enter
  \/ retry_round
  \/ retry_over

notRegister == << baseVars, dlVars, cmVars, soVars, pyVars, cxVars, rcVars >>

\* ------------------------------- the callback and the session manager
MaxCallbacks == 2
MaxCbSteps == 4

ConfirmCallbacks == 1..MaxCallbacks

Elicited(used, registered) == [used |-> used, registered |-> registered]

NoElicitation == Elicited(-1, -1)

InitRegister(at) ==
  /\ rg_callback = 0
  /\ rg_held = FALSE
  /\ rg_exists = FALSE
  /\ rg_mgr = NewManager
  /\ rg_mgr_callback = 0
  /\ rg_pc = at
  /\ rg_attempt = 0
  /\ rg_steps = 0
  /\ rg_registered = 0
  /\ rg_last = NoElicitation

\* client.py:223-225  set_elicitation_callback stores the callback in the
\* client and nowhere else
set_elicitation_callback(cb) ==
  /\ rg_pc \in {"idle", "attempt"}
  /\ rg_steps < MaxCbSteps
  /\ rg_steps' = rg_steps + 1
  /\ rg_callback' = cb
  /\ rg_registered' = cb
  /\ UNCHANGED << rg_held, rg_exists, rg_mgr, rg_mgr_callback, rg_pc,
                  rg_attempt, rg_last, notRegister >>

\* client.py:204-205  the manager's callback after MCPClient.connect
Installed(callback, old) == IF callback # 0 THEN callback ELSE old

\* client.py:198-215  MCPClient.connect: the global manager is fetched (and
\* made when there is none, 158-169), given the client's callback, and
\* connected; a failure becomes the return value False
ConnectClient(o) ==
  LET m0 == IF rg_exists THEN rg_mgr ELSE NewManager
      c0 == IF rg_exists THEN rg_mgr_callback ELSE 0
  IN  [mgr |-> SessionManager_connect(m0, o).m,
       callback |-> Installed(rg_callback, c0)]

MCPClient_connect_callback ==
  /\ rg_pc = "idle"
  /\ rg_steps < MaxCbSteps
  /\ rg_steps' = rg_steps + 1
  /\ \E o \in ConnectOutcomes :
       /\ rg_mgr' = ConnectClient(o).mgr
       /\ rg_mgr_callback' = ConnectClient(o).callback
  /\ rg_exists' = TRUE
  /\ rg_held' = TRUE
  /\ UNCHANGED << rg_callback, rg_pc, rg_attempt, rg_registered, rg_last,
                  notRegister >>

\* client.py:217-221  disconnect: close_global_session (177-182) closes and
\* forgets the global manager
MCPClient_disconnect_callback ==
  /\ rg_pc = "idle"
  /\ rg_steps < MaxCbSteps
  /\ rg_steps' = rg_steps + 1
  /\ rg_exists' = FALSE
  /\ rg_mgr' = NewManager
  /\ rg_mgr_callback' = 0
  /\ rg_held' = FALSE
  /\ UNCHANGED << rg_callback, rg_pc, rg_attempt, rg_registered, rg_last,
                  notRegister >>

\* client.py:240-243  send_tool_call connects when the client holds no
\* manager
send_enter ==
  /\ rg_pc = "idle"
  /\ rg_steps < MaxCbSteps
  /\ rg_steps' = rg_steps + 1
  /\ IF ~rg_held
       THEN /\ \E o \in ConnectOutcomes :
                 /\ rg_mgr' = ConnectClient(o).mgr
                 /\ rg_mgr_callback' = ConnectClient(o).callback
            /\ rg_exists' = TRUE
            /\ rg_held' = TRUE
       ELSE UNCHANGED << rg_mgr, rg_mgr_callback, rg_exists, rg_held >>
  /\ rg_pc' = "attempt"
  /\ rg_attempt' = 0
  /\ UNCHANGED << rg_callback, rg_registered, rg_last, notRegister >>

\* client.py:110  handle_elicitation: the callback it calls, 0 when it
\* declines for lack of one
CallbackUsed(callback) == callback

\* client.py:244-297  one round of send_tool_call; when the tool is called,
\* the server may ask for a confirmation, which handle_elicitation (98-136)
\* answers with the manager's callback
send_attempt ==
  /\ rg_pc = "attempt"
  /\ \E o \in OutcomesIf(NeedsConnect(rg_mgr)), co \in CallOutcomes,
        asks \in BOOLEAN :
       LET r == SessionManager_call_tool(rg_mgr, o, co)
       IN  /\ rg_mgr' = r.m
           /\ rg_last' = IF r.invoked /\ asks
                           THEN Elicited(CallbackUsed(rg_mgr_callback),
                                         rg_registered)
                           ELSE rg_last
           /\ IF ~r.raised \/ LastAttempt(rg_attempt)
                THEN /\ rg_pc' = "idle"
                     /\ rg_attempt' = 0
                ELSE /\ rg_attempt' = rg_attempt + 1
                     /\ UNCHANGED rg_pc
  /\ UNCHANGED << rg_callback, rg_held, rg_exists, rg_mgr_callback, rg_steps,
                  rg_registered, notRegister >>

NextRegister ==
  \/ \E cb \in ConfirmCallbacks : set_elicitation_callback(cb)
  \/ MCPClient_connect_callback
  \/ MCPClient_disconnect_callback
  \/ send_enter
  \/ send_attempt

\* the further parts at rest
InitExt ==
  /\ InitDelete({}, PathA)
  /\ InitCommand(NoCommand)
  /\ InitStream("none", << >>)
  /\ InitPython({})
  /\ InitExecutions("idle")
  /\ InitRetry(RetryAttempts, NewManager, FALSE, "idle")
  /\ InitRegister("off")

InitCore ==
  /\ user_input_queue = << >>
  /\ pc = "boot"
  /\ cur = 0
  /\ interrupted = FALSE
  /\ intent = ""
  /\ steps = << >>
  /\ i = 0
  /\ attempt = 0
  /\ results = << >>
  /\ ret = NoRet
  /\ submitted = 0
  /\ started = << >>
  /\ trace = << >>
  /\ okSteps = << >>
  /\ approved = FALSE
  /\ everCalled = {}
  /\ declined = FALSE
  /\ intK = -1
  /\ staleFlag = FALSE
  /\ call = NoCall
  /\ srvPc = "idle"
  /\ reply = NoReply
  /\ ran = "none"
  /\ elicitRes = NoElicit

\* pyqt_app.py:57, pyqt_main_window.py:181-182; cb: whether the application
\* installs a confirmation callback (pyqt_app.py:95, client.py:204-205)
InitUI(cb) ==
  /\ elicitation_callback = cb
  /\ cbPc = "idle"
  /\ elicitation_future = "none"
  /\ signals = << >>
  /\ mw_callback = 0
  /\ elicitation_handled = FALSE
  /\ chat_prompts = {}
  /\ reqNo = 0
  /\ futureFor = 0
  /\ clicks = 0
  /\ approvals = {}
  /\ intPending = {}
  /\ cbOutcome = "none"
  /\ resolutions = << >>

\* the stand-alone functions with nothing to do
InitPure ==
  /\ InitClassify({}) /\ InitSandbox(<< >>) /\ InitPlanner(NoAnswer, "")
  /\ InitJson(<< >>, "none", << >>)
  /\ InitSend(NewManager, FALSE, "idle")
  /\ InitExt

AuxInit == InitUI(TRUE) /\ InitSession /\ InitPure

Init == InitCore /\ AuxInit

SpecSession == Init /\ [][NextSession]_vars

InitCode ==
  /\ InitCore /\ InitUI(TRUE) /\ InitSession /\ InitSandbox(<< >>)
  /\ InitPlanner(NoAnswer, "") /\ InitJson(<< >>, "none", << >>)
  /\ InitSend(NewManager, FALSE, "idle")
  /\ InitExt
  /\ \E c \in Codes : InitClassify(c)

SpecClassify == InitCode /\ [][Classify]_vars

InitProgram ==
  /\ InitCore /\ InitUI(TRUE) /\ InitSession /\ InitClassify({})
  /\ InitPlanner(NoAnswer, "") /\ InitJson(<< >>, "none", << >>)
  /\ InitSend(NewManager, FALSE, "idle")
  /\ InitExt
  /\ \E c \in Programs : InitSandbox(c)

SpecSandbox == InitProgram /\ [][NextSandbox]_vars

InitQuery ==
  /\ InitCore /\ InitUI(TRUE) /\ InitSession /\ InitClassify({})
  /\ InitSandbox(<< >>) /\ InitJson(<< >>, "none", << >>)
  /\ InitSend(NewManager, FALSE, "idle")
  /\ InitExt
  /\ \E a \in Answers, g \in GenOutcomes : InitPlanner(a, g)

SpecPlanner == InitQuery /\ [][NextPlanner]_vars

InitResponse ==
  /\ InitCore /\ InitUI(TRUE) /\ InitSession /\ InitClassify({})
  /\ InitSandbox(<< >>) /\ InitPlanner(NoAnswer, "")
  /\ \E r \in Responses : InitJson(r.doc, r.kind, r.text)
  /\ InitSend(NewManager, FALSE, "idle")
  /\ InitExt

SpecJson == InitResponse /\ [][NextJson]_vars

InitCall ==
  /\ InitCore /\ InitUI(TRUE) /\ InitSession
  /\ InitClassify({}) /\ InitSandbox(<< >>)
  /\ InitPlanner(NoAnswer, "") /\ InitJson(<< >>, "none", << >>)
  /\ \E m \in Channels, held \in BOOLEAN :
       /\ held => m # NewManager
       /\ InitSend(m, held, "enter")
  /\ InitExt

SpecSend == InitCall /\ [][NextSend]_vars

\* every part above at rest
InitBase ==
  /\ InitCore /\ InitUI(TRUE) /\ InitSession
  /\ InitClassify({}) /\ InitSandbox(<< >>)
  /\ InitPlanner(NoAnswer, "") /\ InitJson(<< >>, "none", << >>)
  /\ InitSend(NewManager, FALSE, "idle")

InitDeleteCode ==
  /\ InitBase
  /\ InitCommand(NoCommand)
  /\ InitStream("none", << >>)
  /\ InitPython({})
  /\ InitExecutions("idle")
  /\ InitRetry(RetryAttempts, NewManager, FALSE, "idle")
  /\ InitRegister("off")
  /\ \E code \in DelCodes, first \in DelPaths : InitDelete(code, first)

SpecDelete == InitDeleteCode /\ [][check_delete]_vars

InitCommandLine ==
  /\ InitBase
  /\ InitDelete({}, PathA)
  /\ InitStream("none", << >>)
  /\ InitPython({})
  /\ InitExecutions("idle")
  /\ InitRetry(RetryAttempts, NewManager, FALSE, "idle")
  /\ InitRegister("off")
  /\ \E command \in Commands : InitCommand(command)

SpecCommand == InitCommandLine /\ [][check_system_command]_vars

InitPrints ==
  /\ InitBase
  /\ InitDelete({}, PathA)
  /\ InitCommand(NoCommand)
  /\ InitPython({})
  /\ InitExecutions("idle")
  /\ InitRetry(RetryAttempts, NewManager, FALSE, "idle")
  /\ InitRegister("off")
  /\ \E callback \in Callbacks, code \in Prints : InitStream(callback, code)

SpecStream == InitPrints /\ [][NextStream]_vars

InitPythonCode ==
  /\ InitBase
  /\ InitDelete({}, PathA)
  /\ InitCommand(NoCommand)
  /\ InitStream("none", << >>)
  /\ InitExecutions("idle")
  /\ InitRetry(RetryAttempts, NewManager, FALSE, "idle")
  /\ InitRegister("off")
  /\ \E code \in PythonCodes : InitPython(code)

SpecPython == InitPythonCode /\ [][NextPython]_vars

InitConcurrent ==
  /\ InitBase
  /\ InitDelete({}, PathA)
  /\ InitCommand(NoCommand)
  /\ InitStream("none", << >>)
  /\ InitPython({})
  /\ InitRetry(RetryAttempts, NewManager, FALSE, "idle")
  /\ InitRegister("off")
  /\ \E at \in {"save_stdout"} : InitExecutions(at)

SpecConcurrent == InitConcurrent /\ [][NextExecutions]_vars

InitRetryCall ==
  /\ InitBase
  /\ InitDelete({}, PathA)
  /\ InitCommand(NoCommand)
  /\ InitStream("none", << >>)
  /\ InitPython({})
  /\ InitExecutions("idle")
  /\ InitRegister("off")
  /\ \E retry_attempts \in RetryChoices, m \in Channels, held \in BOOLEAN :
       /\ held => m # NewManager
       /\ InitRetry(retry_attempts, m, held, "enter")

SpecRetry == InitRetryCall /\ [][NextRetry]_vars

InitRegistration ==
  /\ InitBase
  /\ InitDelete({}, PathA)
  /\ InitCommand(NoCommand)
  /\ InitStream("none", << >>)
  /\ InitPython({})
  /\ InitExecutions("idle")
  /\ InitRetry(RetryAttempts, NewManager, FALSE, "idle")
  /\ \E at \in {"idle"} : InitRegister(at)

SpecRegister == InitRegistration /\ [][NextRegister]_vars

Next ==
  \/ WorkerRun \/ WorkerConnected \/ WorkerConnectFailed
  \/ add_user_input \/ interrupt
  \/ GetInput \/ Precheck \/ ResolveToolCall \/ ResolveTask
  \/ StepTop \/ CallTool \/ CallRaises \/ Sleep \/ ReceiveReply \/ Return
  \/ ServerStep \/ ElicitRespond \/ ElicitTimeout

Spec == Init /\ [][Next]_vars

NextServer == EnvCall \/ EnvReceive \/ EnvElicit \/ EnvTake

SpecServer == Init /\ [][NextServer]_vars

\* ------------------------------------------- the confirmation round trip
(* SpecElicit: one flagged execute_python call after the other, each        *)
(* suspended in ctx.elicit while SessionManager.handle_elicitation runs     *)
(* WorkerThread._elicitation_callback in the worker thread and the main     *)
(* window shows the prompt and takes the clicks in the UI thread.           *)

\* what resolved a request: by "response" (through the prompt of request
\* via), "timeout", "cancel" (interrupt) or "no_callback"
Resolution(req, by, via, ok) ==
  [req |-> req, by |-> by, via |-> via, approved |-> ok]

FutureResult(b) == IF b THEN "true" ELSE "false"

\* client.py:124  except Exception around the callback: a CancelledError is
\* caught (decline) where it is an Exception and escapes handle_elicitation
\* (the elicitation fails) where it is a BaseException
CancelledOutcomes ==
  { ElicitResult("decline", FALSE), ElicitResult("raise", FALSE) }

\* (variant: a request is handed over although the callback is still running)
AwaitsCallback_Not == TRUE

\* client.py:113  handle_elicitation awaits the callback: the request of a
\* suspended tool is handed over once, when no callback is running
AwaitsCallback == cbPc = "idle"

\* the client sends a call the server will flag
ElDispatch ==
  /\ call = NoCall
  /\ reqNo < MaxElicits
  /\ call' = Call("execute_python", PyArgs({"os.system('ls')"}), TRUE)
  /\ UNCHANGED << srvPc, reply, ran, elicitRes, clientVars, uiVars >>
  /\ UNCHANGED << sessVars, pureVars >>

\* client.py:98-136 and pyqt_app.py:194-199  handle_elicitation is called for
\* the suspended tool: no callback, decline at once; else the callback
\* starts and emits elicitation_request
handle_elicitation_begin ==
  /\ srvPc = "elicit"
  /\ AwaitsCallback
  /\ reqNo' = reqNo + 1
  /\ IF ~elicitation_callback
       THEN /\ SrvResume(SessionManager_handle_elicitation(FALSE, "false"))
            /\ cbOutcome' = "none"
            /\ resolutions' =
                 Append(resolutions, Resolution(reqNo + 1, "no_callback", 0, FALSE))
            /\ UNCHANGED << cbPc, signals >>
       ELSE /\ signals' = Append(signals, reqNo + 1)
            /\ cbPc' = "emitted"
            /\ cbOutcome' = "none"
            /\ UNCHANGED << serverVars, resolutions >>
  /\ UNCHANGED << clientVars, elicitation_callback, elicitation_future,
                  mw_callback, elicitation_handled, chat_prompts, futureFor,
                  clicks, approvals, intPending >>
  /\ UNCHANGED << sessVars, pureVars >>

\* pyqt_app.py:202  self.elicitation_future = self.loop.create_future()
create_future ==
  /\ cbPc = "emitted"
  /\ elicitation_future' = "pending"
  /\ futureFor' = reqNo
  /\ cbPc' = "waiting"
  /\ UNCHANGED << clientVars, serverVars, elicitation_callback, signals,
                  mw_callback, elicitation_handled, chat_prompts, reqNo, clicks, approvals, intPending,
                  cbOutcome, resolutions >>
  /\ UNCHANGED << sessVars, pureVars >>

\* pyqt_app.py:379-387 and pyqt_main_window.py:571-608  the UI thread takes
\* the signal: add_elicitation_message stores the callback, resets the
\* handled flag and appends the prompt with its two links to the chat
on_elicitation_request ==
  /\ signals # << >>
  /\ mw_callback' = Head(signals)
  /\ elicitation_handled' = FALSE
  /\ chat_prompts' = chat_prompts \cup {Head(signals)}
  /\ signals' = Tail(signals)
  /\ UNCHANGED << clientVars, serverVars, elicitation_callback, cbPc,
                  elicitation_future, reqNo, futureFor, clicks, approvals, intPending, cbOutcome,
                  resolutions >>
  /\ UNCHANGED << sessVars, pureVars >>

\* pyqt_app.py:226-229  set_elicitation_result(result), reached through the
\* prompt of request via
set_elicitation_result(result, via) ==
  IF elicitation_future = "pending"
    THEN /\ elicitation_future' = FutureResult(result)
         /\ resolutions' =
              Append(resolutions, Resolution(futureFor, "response", via, result))
    ELSE UNCHANGED << elicitation_future, resolutions >>

\* pyqt_main_window.py:345-350, 610-631  a click on the yes / no link of the
\* prompt p in the chat: handle_elicitation_response(confirmed)
handle_chat_link_clicked ==
  /\ clicks < MaxClicks
  /\ clicks' = clicks + 1
  /\ \E p \in chat_prompts, confirmed \in BOOLEAN :
       IF elicitation_handled
         THEN UNCHANGED << elicitation_handled, mw_callback, elicitation_future,
                           resolutions, approvals >>
         ELSE /\ elicitation_handled' = TRUE
              /\ mw_callback' = 0
              /\ IF mw_callback # 0
                   THEN set_elicitation_result(confirmed, p)
                   ELSE UNCHANGED << elicitation_future, resolutions >>
              /\ approvals' =
                   IF confirmed /\ p = mw_callback /\ p = reqNo
                        /\ \A k \in 1..Len(resolutions) : resolutions[k].req # p
                     THEN approvals \cup {p} ELSE approvals
  /\ UNCHANGED << clientVars, serverVars, elicitation_callback, cbPc, signals,
                  chat_prompts, reqNo, futureFor, cbOutcome, intPending >>
  /\ UNCHANGED << sessVars, pureVars >>

\* pyqt_app.py:206-210, 215 and client.py:113-123  no result within 30 s:
\* wait_for cancels the future, the callback returns False
wait_timeout ==
  /\ cbPc = "waiting"
  /\ elicitation_future = "pending"
  /\ elicitation_future' = "cancelled"
  /\ cbOutcome' = "false"
  /\ resolutions' = Append(resolutions, Resolution(futureFor, "timeout", 0, FALSE))
  /\ SrvResume(SessionManager_handle_elicitation(TRUE, "false"))
  /\ cbPc' = "idle"
  /\ UNCHANGED << clientVars, elicitation_callback, signals, mw_callback,
                  elicitation_handled, chat_prompts, reqNo, futureFor, clicks, approvals, intPending >>
  /\ UNCHANGED << sessVars, pureVars >>

\* pyqt_app.py:206-207, 215 and client.py:113-123  the future has a result:
\* the callback returns it
callback_return ==
  /\ cbPc = "waiting"
  /\ elicitation_future \in {"true", "false"}
  /\ cbOutcome' = elicitation_future
  /\ SrvResume(SessionManager_handle_elicitation(TRUE, elicitation_future))
  /\ cbPc' = "idle"
  /\ UNCHANGED << clientVars, elicitation_callback, elicitation_future, signals,
                  mw_callback, elicitation_handled, chat_prompts, reqNo,
                  futureFor, clicks, approvals, intPending, resolutions >>
  /\ UNCHANGED << sessVars, pureVars >>

\* pyqt_app.py:231-240  WorkerThread.interrupt from the UI thread
WorkerThread_interrupt ==
  /\ ~interrupted \/ elicitation_future = "pending"
  /\ interrupted' = TRUE
  /\ IF elicitation_future = "pending"
       THEN /\ elicitation_future' = "cancelled"
            /\ resolutions' =
                 Append(resolutions, Resolution(futureFor, "cancel", 0, FALSE))
       ELSE UNCHANGED << elicitation_future, resolutions >>
  /\ UNCHANGED << user_input_queue, pc, cur, intent, steps, i, attempt, results,
                  ret, submitted, started, okSteps, trace, approved, everCalled,
                  declined, intK, staleFlag, serverVars, elicitation_callback, cbPc,
                  signals, mw_callback, elicitation_handled, chat_prompts, reqNo,
                  futureFor, clicks, approvals, cbOutcome >>
  /\ intPending' =
       IF cbPc \in {"emitted", "waiting"}
            /\ \A k \in 1..Len(resolutions) : resolutions[k].req # reqNo
         THEN intPending \cup {reqNo} ELSE intPending
  /\ UNCHANGED << sessVars, pureVars >>

\* pyqt_app.py:206, 211 and client.py:113, 124  the wait on a cancelled
\* future raises CancelledError in the callback
callback_cancelled ==
  /\ cbPc = "waiting"
  /\ elicitation_future = "cancelled"
  /\ cbOutcome' = "raise"
  /\ \E r \in CancelledOutcomes : SrvResume(r)
  /\ cbPc' = "idle"
  /\ UNCHANGED << clientVars, elicitation_callback, elicitation_future, signals,
                  mw_callback, elicitation_handled, chat_prompts, reqNo,
                  futureFor, clicks, approvals, intPending, resolutions >>
  /\ UNCHANGED << sessVars, pureVars >>

InitElicit ==
  InitCore /\ InitSession /\ InitPure /\ \E cb \in BOOLEAN : InitUI(cb)

NextElicit ==
  \/ ElDispatch \/ EnvReceive \/ EnvTake
  \/ handle_elicitation_begin \/ create_future \/ on_elicitation_request
  \/ handle_chat_link_clicked \/ wait_timeout \/ callback_return
  \/ WorkerThread_interrupt \/ callback_cancelled

SpecElicit == InitElicit /\ [][NextElicit]_vars

\* ==================================================================== claims
InDispatch == pc \in {"call", "inflight", "sleep"}
Last(seq) == seq[Len(seq)]
Increasing(seq) ==
  \A a, b \in 1..Len(seq) : a < b => seq[a] < seq[b]

\* C1 (as claimed): a step (or direct code request) that the client's
\* classifier finds non-clear is handed to SessionManager.call_tool only after
\* an elicitation response with approved=true has been recorded for it.
C1_ApprovalBeforeDispatch ==
  ( /\ pc = "inflight"
    /\ ElicitationManager_check_dangerous_operation(
         steps[i].tool, steps[i].args) # None )
  => approved

\* operations the server flags, and the gate on them
FlaggedPython(c) ==
  /\ c.tool = "execute_python"
  /\ SecurityChecker_check_dangerous_operation(c.args.code) # None
FlaggedDelete(c) ==
  c.tool = "file_operations" /\ c.args.operation = "delete"
Accepted == ElicitResult("accept", TRUE)
RefusedResults ==
  { ElicitResult("accept", FALSE), ElicitResult("decline", FALSE),
    ElicitResult("cancel", FALSE) }
GateHolds ==
  /\ ran # "none" => elicitRes = Accepted
  /\ (elicitRes \in RefusedResults /\ reply # NoReply)
       => (reply = UserCancelled /\ ran = "none")

\* C2 (as claimed): every flagged operation (flagged execute_python code, any
\* file_operations delete) runs only after accept with confirmed=true; any
\* other result gives the user-cancelled failure and nothing is started.
C2_ServerGate ==
  (FlaggedPython(call) \/ FlaggedDelete(call)) => GateHolds

\* C3 (as claimed): once a step of a plan has ended user-cancelled (its
\* elicitation was declined or timed out), no later step is dispatched.
C3_CancelEndsPlan ==
  ( /\ intent = "task"
    /\ \E j \in 1..Len(results) : results[j].result = UserCancelled )
  => ~InDispatch

\* the current step has failed on its last attempt
AllAttemptsFailed ==
  trace # << >> /\ Last(trace) = Event("fail", i, RetryAttempts - 1)

\* C4 (as claimed): a step whose dispatch failed on every attempt (not a user
\* cancellation) does not abort the plan: the failure is recorded as the
\* step's result and the run goes on.
C4_FailureContinues ==
  (intent = "task" /\ ~declined /\ AllAttemptsFailed)
  => (ret.kind # "failed" /\ Len(results) >= i)

\* C5 (as claimed): a plan of N steps that ends without cancellation has
\* produced exactly N results, result j being that of step j.
C5_OneResultPerStep ==
  (pc = "returned" /\ intent = "task" /\ ~interrupted /\ ~declined)
  => ( /\ Len(results) = Len(steps)
       /\ okSteps = [j \in 1..Len(steps) |-> j] )

\* C6: one send_tool_call makes at most retry_attempts attempts, makes none
\* after a success, makes a further attempt only after a failed one and the
\* delay, sleeps only between attempts, and when it raises it raises the last
\* attempt's exception; an earlier failure is not surfaced.
C6_RetryPolicy ==
  LET n == Len(trace)
      calls == { k \in 1..n : trace[k].ev = "call" }
  IN  /\ Cardinality(calls) <= RetryAttempts
      /\ \A k \in 1..n : trace[k].ev = "ok" => k = n
      /\ \A k \in calls :
           k > 1 => /\ k >= 3
                    /\ trace[k-1].ev = "sleep"
                    /\ trace[k-2] = Event("fail", trace[k].step,
                                          trace[k].attempt - 1)
      /\ \A k \in 1..n :
           trace[k].ev = "sleep"
             => /\ k > 1
                /\ trace[k-1].ev = "fail"
                /\ trace[k-1].attempt < RetryAttempts - 1
      /\ (pc = "returned" /\ ret.kind = "failed")
           => /\ n > 0
              /\ Last(trace) = Event("fail", i, RetryAttempts - 1)
              /\ ret.note = Exc(RetryAttempts - 1)
      /\ (n > 0 /\ Last(trace).ev = "fail"
                /\ Last(trace).attempt < RetryAttempts - 1)
           => (pc = "sleep" /\ ret = NoRet)

C6_Witness ==
  /\ pc = "returned"
  /\ ret = FailureReport(Exc(RetryAttempts - 1))
  /\ Len(trace) = 3 * RetryAttempts - 1

\* C7: call_tool is invoked for a step either for the first time in this plan
\* execution, or as the retry right after a failed attempt of that same step;
\* never for a step whose result has been recorded.
C7_DispatchOnce ==
  [][ (Len(trace') = Len(trace) + 1 /\ Last(trace').ev = "call")
      => LET e == Last(trace')
         IN  /\ \A j \in 1..Len(okSteps) : okSteps[j] # e.step
             /\ \/ e.step \notin everCalled /\ e.attempt = 0
                \/ /\ Len(trace) >= 2
                   /\ Last(trace).ev = "sleep"
                   /\ trace[Len(trace) - 1] = Event("fail", e.step, e.attempt - 1)
    ]_vars

C7_Witness ==
  /\ okSteps = << 1 >>
  /\ Len(trace) = 4
  /\ trace[4] = Event("call", 2, 1)

\* C8: after interrupt() hit a plan when k steps had been dispatched, no step
\* beyond k is ever dispatched, and the run halts as interrupted only at a step
\* boundary: step k got its result first.
C8_InterruptAtStepBoundary ==
  /\ (intent = "task" /\ intK # -1) => \A j \in everCalled : j <= intK
  /\ (pc = "returned" /\ intent = "task" /\ ret.kind = "interrupted")
       => /\ intK # -1
          /\ Len(results) = intK
          /\ okSteps = [j \in 1..intK |-> j]
          /\ everCalled = 1..intK

C8_Witness ==
  /\ pc = "returned"
  /\ ret.kind = "interrupted"
  /\ intK = 1
  /\ Len(steps) = 2
  /\ Len(results) = 1

\* C9 (as claimed): the result returned for a plan interrupted after k steps
\* carries the summaries of exactly those k steps.
C9_PartialSummary ==
  (pc = "returned" /\ intent = "task" /\ ret.kind = "interrupted")
  => Len(ret.summary) = intK

\* submission order is kept, the request in process is the one taken last,
\* and an open call or elicitation belongs to it
C10_Order ==
  /\ Increasing(started \o user_input_queue)
  /\ cur # 0 => (started # << >> /\ cur = Last(started))
  /\ (call # NoCall \/ srvPc = "elicit") => (pc = "inflight" /\ cur # 0)

\* C10: requests are taken in submission order, one at a time: a request is
\* taken only when the worker is idle and no call or elicitation is open, and
\* every call and elicitation belongs to the one request in process.
C10_OneAtATime ==
  /\ []C10_Order
  /\ [][ started' # started
         => (pc = "idle" /\ cur = 0 /\ call = NoCall /\ srvPc = "idle") ]_vars

C10_Witness ==
  /\ cur = 1
  /\ pc = "inflight"
  /\ user_input_queue = << 2 >>

\* --------------------------------------------- claims on the round trip
ResolutionsOf(r) ==
  SelectSeq(resolutions, LAMBDA e : e.req = r)
Resolved(r) == Len(ResolutionsOf(r)) > 0
TimedOut(r) ==
  \E k \in 1..Len(resolutions) :
    resolutions[k].req = r /\ resolutions[k].by = "timeout"

\* C11 (as claimed): a request that got no response within the timeout is
\* resolved exactly once, as declined, and after that nothing of it is pending:
\* not its future in the worker, not its callback in the prompt handler.
C11_TimeoutClearsPending ==
  \A r \in 1..reqNo :
    TimedOut(r)
      => /\ Len(ResolutionsOf(r)) = 1
         /\ ~ResolutionsOf(r)[1].approved
         /\ ~(futureFor = r /\ elicitation_future = "pending")
         /\ mw_callback # r

\* C12 (as claimed): a request is resolved by one response only, and a response
\* given for a request that is already resolved (a click on its prompt after
\* the first click or after the timeout) changes nothing: whatever a response
\* resolves is the request whose prompt it was given through.
C12_OneResponse ==
  /\ \A r \in 1..reqNo : Len(ResolutionsOf(r)) <= 1
  /\ \A k \in 1..Len(resolutions) :
       resolutions[k].by = "response" => resolutions[k].via = resolutions[k].req

\* every request but the newest is resolved, and the future and the prompt
\* callback belong to requests already issued
C13_Pending ==
  /\ \A r \in 1..(reqNo - 1) : Resolved(r)
  /\ elicitation_future = "pending" => (futureFor = reqNo /\ ~Resolved(reqNo))
  /\ mw_callback <= reqNo

\* C13: at most one request is unanswered at any time: a new request is issued
\* only when every earlier one is resolved, and neither a pending future nor
\* the prompt callback of an unresolved request is ever replaced.
C13_OneUnanswered ==
  /\ []C13_Pending
  /\ [][ /\ reqNo' # reqNo => \A r \in 1..reqNo : Resolved(r)
         /\ futureFor' # futureFor => elicitation_future # "pending"
         /\ (mw_callback # 0 /\ mw_callback' \notin {0, mw_callback})
              => Resolved(mw_callback) ]_vars

C13_Witness ==
  /\ reqNo = 2
  /\ elicitation_future = "pending"
  /\ futureFor = 2
  /\ mw_callback = 2
  /\ TimedOut(1)

\* C14 (as claimed): handle_elicitation answers accept with confirmed=true only
\* when a callback is installed and returned true; with no callback, a false
\* result or an exception raised by the callback it answers decline.
C14_AcceptOnlyOnTrue ==
  elicitRes # NoElicit
    => elicitRes = IF elicitation_callback /\ cbOutcome = "true"
                     THEN ElicitResult("accept", TRUE)
                     ELSE ElicitResult("decline", FALSE)

\* ------------------------------------------- claims on the session channel
\* C15: connect on a connected instance succeeds at once, opens no transport,
\* shakes no hands and changes nothing of the instance; and as long as an
\* instance stays connected no connect or call_tool shakes hands again.
C15_ConnectIdempotent ==
  /\ [] ( (lastOp.op = "connect" /\ lastOp.before.connected)
            => /\ ~lastOp.raised
               /\ ~lastOp.opened
               /\ ~lastOp.handshake
               /\ mgrs[lastOp.mgr] = lastOp.before )
  /\ [][ \A m \in 1..MaxManagers :
           (mgrs[m].connected /\ mgrs'[m].connected)
             => mgrs'[m].handshakes = mgrs[m].handshakes ]_vars

C15_Witness ==
  /\ lastOp.op = "connect"
  /\ lastOp.before.connected
  /\ mgrs[lastOp.mgr].handshakes = 1

\* C16 (as claimed): when connect has failed, every context entered in that
\* attempt has been exited again before the error is reported, and the
\* instance is disconnected.
C16_FailedConnectReleases ==
  (lastOp.op = "connect" /\ lastOp.raised)
    => /\ mgrs[lastOp.mgr].open = {}
       /\ ~mgrs[lastOp.mgr].connected

\* C17: call_tool on a disconnected instance connects first, and when that
\* connect fails the call fails with the connect error and the remote tool is
\* not invoked.
C17_ImplicitConnect ==
  (lastOp.op = "call_tool" /\ ~lastOp.before.connected)
    => /\ lastOp.connectTried
       /\ ~mgrs[lastOp.mgr].connected
            => (lastOp.raised /\ lastOp.error = "connect" /\ ~lastOp.invoked)

C17_Witness ==
  /\ lastOp.op = "call_tool"
  /\ ~lastOp.before.connected
  /\ lastOp.raised
  /\ lastOp.error = "connect"
  /\ ~lastOp.invoked

\* C18 (as claimed): a call_tool on an instance whose connection was found
\* lost by an earlier call makes a reconnect attempt.
C18_ReconnectAfterLoss ==
  (lastOp.op = "call_tool" /\ lastOp.before.dead) => lastOp.connectTried

\* C19 (as claimed): at most one SessionManager instance is active (connected)
\* in the process at any time.
C19_SingleActive ==
  Cardinality({ m \in 1..MaxManagers : mgrs[m].connected }) <= 1

\* ---------------------------------------------- claims on the classifier
\* code the claim names: process spawning, dynamic evaluation, and imports of
\* network modules (socket, requests and ftplib are network modules in the
\* classifier's or in the sandbox's own deny-list)
NamedDangerous ==
  { "os.system('ls')", "subprocess.run(c)", "eval(x)", "import socket",
    "import requests", "import ftplib" }

\* a fragment matches one of the classifier's deny patterns
HasDeniedPattern(f) ==
  \/ \E kw \in ServerDeletePatterns : kw \in Occurs(f)
  \/ \E k \in 1..Len(ServerDirKeywords) : ServerDirKeywords[k] \in Occurs(f)
  \/ \E k \in 1..Len(ServerDangerousKeywords) :
       ServerDangerousKeywords[k] \in Occurs(f)

\* an open call with a write mode
WriteModeOpen(f) == f = "open(p,'w')"

\* C20 (as claimed): code containing os.system(...), eval(...), subprocess or
\* a socket / network import is never clear, and code with no denied pattern
\* and no write-mode open is clear.
C20_ClassifyCode ==
  cls_verdict # Unclassified
    => /\ (cls_code \cap NamedDangerous # {}) => cls_verdict # None
       /\ (\A f \in cls_code : ~HasDeniedPattern(f) /\ ~WriteModeOpen(f))
            => cls_verdict = None

\* the sub-categories the code falls in
HardDenied(code) ==
  \E f \in code : \E k \in 1..Len(ServerDangerousKeywords) :
    ServerDangerousKeywords[k] \in Occurs(f)

WritesFile(code) == \E f \in code : WriteModeOpen(f)

DeletesFile(code) ==
  \E f \in code : \E op \in ServerDeletePatterns : op \in Occurs(f)

DirectoryOp(code) ==
  \E f \in code : \E k \in 1..Len(ServerDirKeywords) :
    ServerDirKeywords[k] \in Occurs(f)

\* C30: code that matches several sub-categories is reported in the priority
\* order hard-denied call, write-mode open, file delete, directory operation:
\* code with a hard-denied call is reported as hard-denied whatever else it
\* holds, and each later category is reported when no earlier one matches.
C30_PriorityOrder ==
  cls_verdict # Unclassified
    => LET h == HardDenied(cls_code)
           w == WritesFile(cls_code)
           d == DeletesFile(cls_code)
       IN  /\ h => cls_verdict.kind = "danger"
           /\ (~h /\ w) => cls_verdict.kind = "write"
           /\ (~h /\ ~w /\ d) => cls_verdict.kind = "delete"
           /\ (~h /\ ~w /\ ~d /\ DirectoryOp(cls_code))
                => cls_verdict.kind = "dir"

\* ------------------------------------------------- claims on the sandbox
\* modules of the categories the claim lists: process control, networking,
\* serialization, low-level OS, credential/hash, GUI
ClaimedDenied ==
  { << "subprocess" >>, << "socket" >>, << "http", "client" >>,
    << "pickle" >>, << "ctypes" >>, << "hashlib" >>, << "webbrowser" >> }

\* the general file-system modules (shutil is the file-operation module the
\* classifier's delete patterns name, security.py:71-81)
FileSystemModules ==
  { << "os" >>, << "os", "path" >>, << "pathlib" >>, << "shutil" >> }

\* C21 (as claimed): an import is denied exactly when the module is one of
\* the listed categories, and every other module, the general file-system
\* modules included, is imported normally.
C21_ImportDenyList ==
  \A k \in 1..Len(sb_import) :
    /\ sb_import[k].denied <=> sb_import[k].name \in ClaimedDenied
    /\ sb_import[k].name \in FileSystemModules => ~sb_import[k].denied

\* C22 (as claimed): execute_code never raises to its caller; when the code
\* raised, the result's error field carries the failure and its output field
\* the output captured before it.
C22_NeverRaises ==
  sb_result # NoResult
    => /\ sb_result.kind = "return"
       /\ sb_exc # NoExc
            => /\ sb_result.error = [text |-> "error_trace", exc |-> sb_exc]
               /\ sb_result.output = sb_stdout

\* ------------------------------------------------- claims on the planner
\* the backend's answer is a plan with at least one step, each with a tool
ValidAnswer(a) ==
  /\ a.kind = "dict"
  /\ a.steps # << >>
  /\ \A k \in 1..Len(a.steps) : a.steps[k].tool # ""

\* C23: plan() returns the model's plan only when it has at least one step
\* and every step a non-empty tool name; for every other answer (no steps, a
\* step without tool, a planning exception) it returns a plan of exactly one
\* execute_python step, so it always returns a plan.
C23_PlanOrFallback ==
  pl_plan # NoPlan
    => IF ValidAnswer(pl_answer)
         THEN pl_plan = Plan("model", pl_answer.steps)
         ELSE /\ pl_plan.plan # "model"
              /\ Len(pl_plan.steps) = 1
              /\ pl_plan.steps[1].tool = "execute_python"

C23_Witness ==
  /\ pl_plan # NoPlan
  /\ pl_answer.kind = "dict"
  /\ Len(pl_answer.steps) = 2
  /\ pl_answer.steps[2].tool = ""
  /\ Len(pl_plan.steps) = 1

\* C24 (as claimed): an empty step list answered by the backend is accepted:
\* the request runs with zero tool invocations and reports the plan's own
\* explanatory text.
C24_EmptyPlanAccepted ==
  (pl_report.kind # "none" /\ pl_answer = Answer("dict", << >>))
    => /\ pl_calls = << >>
       /\ pl_report.plan = "model"

\* ------------------------------------------- claims on the result object
\* C25: process_user_intent never raises: whenever it is over, its caller
\* holds a result object (summary and plan), and after a failed dispatch or
\* connection the summary carries the error text and the plan is empty.
C25_AlwaysResult ==
  pc = "returned"
    => /\ ret.kind \in { "single", "completed", "interrupted", "failed" }
       /\ (trace # << >> /\ trace[Len(trace)].ev = "fail")
            => ret = Ret("failed", << >>, Exc(trace[Len(trace)].attempt), << >>)

C25_Witness ==
  /\ pc = "returned"
  /\ ret.kind = "failed"
  /\ trace # << >>
  /\ trace[Len(trace)] = Event("fail", 1, RetryAttempts - 1)

\* -------------------------------------------- claims on the JSON cleaner
\* the responses that are valid JSON as they stand
ValidResponse == js_kind \in { "exact", "padded" }

\* out is text without the white space at its two ends, nothing else changed
Trimmed(text, out) ==
  \E a, b \in 0..Len(text) :
    /\ a + b <= Len(text)
    /\ out = SubSeq(text, a + 1, Len(text) - b)
    /\ \A k \in 1..a : text[k] \in WhiteSpace
    /\ \A k \in (Len(text) - b + 1)..Len(text) : text[k] \in WhiteSpace
    /\ out # << >> => out[1] \notin WhiteSpace /\ out[Len(out)] \notin WhiteSpace

\* the tokens of the text that are not white space: what it parses to
Parsed(text) == SelectSeq(text, LAMBDA t : t \notin WhiteSpace)

\* the step list of a plan text: what stands between its outermost brackets
StepsOf(text) ==
  LET p == Parsed(text)
      first == IF \E k \in 1..Len(p) : p[k] = "["
                 THEN CHOOSE k \in 1..Len(p) :
                        p[k] = "[" /\ \A j \in 1..(k - 1) : p[j] # "["
                 ELSE 0
      last == RFind(p, Len(p), {"]"})
  IN  IF first = 0 \/ last < first THEN << "none" >>
      ELSE SubSeq(p, first + 1, last - 1)

\* C26 (as claimed): a response that is already valid JSON comes out of
\* clean_json_response as the same string.
C26_ValidUnchanged ==
  (ValidResponse /\ js_out # NotRun) => js_out = js_in

\* C26 (amended): valid JSON passes validate_and_fix_json unchanged and
\* clean_json_response with only the white space at its ends removed (it
\* parses to the same document), and cleaning the result again changes
\* nothing.
C26_ValidTrimmedOnly ==
  ValidResponse
    => /\ js_fixed # NotRun => js_fixed = js_in
       /\ js_out # NotRun
            => /\ Trimmed(js_in, js_out)
               /\ json_loads(js_out)
               /\ Parsed(js_out) = js_doc
       /\ js_again # NotRun => js_again = js_out

C26_Witness ==
  /\ js_kind = "padded"
  /\ js_fixed = js_in
  /\ js_again # NotRun
  /\ js_out # js_in
  /\ Len(js_in) > Len(js_doc) + 1

\* C27 (as claimed): a plan text with exactly one extra trailing comma or
\* exactly one unbalanced brace is repaired by clean_json_response into a
\* text that parses, with the step list of the intended plan.
C27_RepairsOneDefect ==
  (js_kind \in { "trailing_comma", "missing_brace", "extra_brace" }
     /\ js_out # NotRun)
    => /\ json_loads(js_out)
       /\ StepsOf(js_out) = StepsOf(js_doc)

Connects == SelectSeq(ds_log, LAMBDA x : x.op = "connect")

FailedConnect(x) == x.op = "connect" /\ x.outcome # "ok"

\* C29: within one send_tool_call on a disconnected channel, connection
\* establishment is attempted at most once, and a connection failure ends the
\* call with the error raised to the caller: nothing is attempted after it.
C29_ConnectOnce ==
  /\ Len(Connects) <= 1
  /\ \A k \in 1..Len(ds_log) :
       FailedConnect(ds_log[k])
         => /\ k = Len(ds_log)
            /\ ds_pc = "raised"
            /\ ds_result = "connect"

\* ------------------------------------------- claims on the delete message
\* the literal path arguments of the delete calls of the code
LiteralPaths(code) == { c.path : c \in code }

\* C31: for code flagged as a file delete the message lists literal path
\* arguments of the delete calls, at most 5 of them in total however many
\* calls and operations the code holds, and all of them when they are at
\* most 5 (the list is a set: no path is listed twice).
C31_DeletePathsListed ==
  dl_listed # NoMessage
    => /\ dl_listed \subseteq LiteralPaths(dl_code)
       /\ Cardinality(dl_listed) <= MaxShown
       /\ Cardinality(LiteralPaths(dl_code)) <= MaxShown
            => dl_listed = LiteralPaths(dl_code)

\* --------------------------------------- claims on the command check
\* the signatures the claim names: recursive delete, format, shutdown and
\* reboot, privilege escalation
NamedSignatures ==
  { "rm -rf", "Remove-Item -Recurse -Force", "format", "shutdown", "reboot",
    "sudo", "su" }

\* C32: a system command that carries one of the destructive signatures of
\* the fixed list is detected (judged unsafe) in whatever letter case it is
\* written.
C32_DetectedInAnyCase ==
  (cm_safe # Unchecked /\ cm_command.words \in NamedSignatures
     /\ cm_command.args)
    => cm_safe = "unsafe"

\* ------------------------------------- claims on the output callback
\* number of prints of the code to a stream
PrintsTo(stream) ==
  Cardinality({ k \in 1..Len(so_code) : so_code[k] = stream })

\* C33: a failure while delivering a chunk to the callback is swallowed: the
\* code keeps running, every chunk is kept in the buffer, and the result is
\* the one a callback that never fails gives (all the code's output, no
\* error text).
C33_DeliveryFailureSwallowed ==
  /\ so_exc = NoExc
  /\ so_result # NoResult
       => so_result = Returned(PrintsTo("stdout"),
                               [text |-> "stderr", writes |-> PrintsTo("stderr")])

\* ------------------------------------ further claims on the round trip
\* C34: a response given on the prompt of a request that was resolved by
\* timeout resolves no later request: what it resolves, if anything, is the
\* request whose prompt it answers.
C34_StaleResponseResolvesNothing ==
  \A k \in 1..Len(resolutions) :
    (resolutions[k].by = "response" /\ TimedOut(resolutions[k].via))
      => resolutions[k].req <= resolutions[k].via

\* C35: once the prompt of a request is in the chat, the user's response to
\* it reaches the waiting step under every interleaving of the UI thread and
\* the worker loop: a request confirmed by the first click on its own prompt
\* while it was unresolved never ends declined by timeout.
C35_ApprovalNotDropped ==
  \A r \in approvals : ~TimedOut(r)

\* C36: an interrupt issued while an elicitation request is pending (handed
\* to handle_elicitation and not yet resolved) never ends in that request
\* being approved, and the operation the request guards is not executed.
C36_InterruptNeverApproves ==
  /\ \A k \in 1..Len(resolutions) :
       resolutions[k].req \in intPending => ~resolutions[k].approved
  /\ reqNo \in intPending => ran = "none"

\* ----------------------------------- claims on the two classifiers
\* C37: every code string that _check_python_code rejects (returns False) is
\* flagged by check_dangerous_operation (returns a message).
C37_RejectedIsFlagged ==
  (py_safe = "false" /\ py_message # Unclassified) => py_message # None

\* ------------------------------------- claims on concurrent executions
\* C38: when all executions of an interleaving have finished, sys.stdout and
\* sys.stderr are the original streams again, and the output each execution
\* returned is the text its own code wrote, all of it and nothing else.
C38_StreamsRestored ==
  (\A e \in Execs : cx_pc[e] = "done")
    => /\ sys_stdout = Original
       /\ sys_stderr = Original
       /\ \A e \in Execs : cx_output[e] = [k \in 1..cx_written[e] |-> e]

\* ------------------------------------- claims on retry_attempts
\* C39: with retry_attempts >= 1 a finished send_tool_call has returned a
\* tool_response or has raised the exception of its last attempt, the
\* retry_attempts-th, and has never returned a result of type error; with
\* retry_attempts <= 0 it has returned the generic error result and has made
\* no call of the tool.
C39_TwoOutcomes ==
  rc_pc \in {"returned", "raised"} =>
    IF rc_retry >= 1
      THEN \/ /\ rc_pc = "returned"
              /\ rc_result.type = "tool_response"
              /\ Last(rc_log) = "ok"
           \/ /\ rc_pc = "raised"
              /\ rc_result.type = "raised"
              /\ Len(rc_log) = rc_retry
              /\ rc_result.attempt = rc_retry - 1
              /\ rc_result.result = Last(rc_log)
      ELSE /\ rc_pc = "returned"
           /\ rc_result = GenericError
           /\ rc_log = << >>

\* all attempts of a call with two or more have failed, and the last
\* exception has been raised
C39_Witness ==
  /\ rc_pc = "raised"
  /\ rc_retry >= 2
  /\ Len(rc_log) = rc_retry

\* ------------------------------------- claims on the registered callback
\* C40: an elicitation that arrives after a callback has been registered with
\* set_elicitation_callback is answered by the callback registered last, and
\* so is never declined for lack of a callback, whether the registration came
\* before or after connect() and also after a disconnect and a reconnect
\* made by send_tool_call.
C40_RegisteredCallbackUsed ==
  (rg_last # NoElicitation /\ rg_last.registered # 0)
    => rg_last.used = rg_last.registered

====
